---- MODULE Spec2Model ----
(***************************************************************************)
(* The attendance tracker: the period timetable (periodManager.ts), the    *)
(* location registry and geofence evaluator (geolocation.ts), the rolling  *)
(* location history of the useGeolocation hook and the attendance record   *)
(* store (attendanceService.ts).                                           *)
(*                                                                         *)
(* Time is the local wall clock at minute resolution (now, localDay); the  *)
(* UTC offset of the browser is fixed for a run.  Positions are metres     *)
(* along one line, so the library getDistance is the absolute difference.  *)
(***************************************************************************)
EXTENDS Integers, Sequences, FiniteSets, TLC

\* ------------------------------------------------------------------ bounds
\* Minutes of wall-clock time a run lasts after the page is opened.
Horizon == 2
\* Markings (markAttendance invocations) in flight at the same time.
MaxTasks == 2
\* Samples delivered to the location-history hook during a run.
MaxDelivered == 2
\* Locations registered during a run of the registry.
MaxLocations == 3
\* Samples of a history handed to detectLocationSpoofing.
MaxHistory == 3
\* Samples delivered to the hook in a run that fills the rolling history.
MaxArrivals == 12
\* Watches and timers the browser hands out during a run of the services.
MaxHandles == 3
\* Subscriptions held by a service at the same time.
MaxSubscriptions == 2
\* Trigger events generated during a run in which they can be forced.
MaxEvents == 3
\* Days an uninterrupted run of the trigger service lasts.
MaxDays == 2
\* Days the statistics are asked to look back.
MaxStatDays == 2
\* The last calendar day of the stores the statistics run over (day 1 is a Friday).
MaxStatDate == 4
\* Records of a store that is exported.
MaxExport == 2

\* --------------------------------------------------------------- constants
\* null / undefined of the source (a missing period number, time or field).
None == -1
MinutesPerDay == 1440

Students == {"s1"}
Tasks == 1 .. MaxTasks
\* Offsets of local time from UTC, in minutes: UTC, and UTC+11, where the UTC
\* date changes at 11:00 local time, five minutes into Period 3.
UtcOffsets == {0, 660}

PERIOD_TIMETABLE ==
  << [period |-> 1,    label |-> "Period 1",    start_time |-> <<8, 45>>,  end_time |-> <<9, 45>>,  is_active |-> TRUE],
     [period |-> 2,    label |-> "Period 2",    start_time |-> <<9, 45>>,  end_time |-> <<10, 35>>, is_active |-> TRUE],
     [period |-> None, label |-> "Break",       start_time |-> <<10, 35>>, end_time |-> <<10, 55>>, is_active |-> FALSE],
     [period |-> 3,    label |-> "Period 3",    start_time |-> <<10, 55>>, end_time |-> <<11, 45>>, is_active |-> TRUE],
     [period |-> 4,    label |-> "Period 4",    start_time |-> <<11, 45>>, end_time |-> <<12, 35>>, is_active |-> TRUE],
     [period |-> None, label |-> "Lunch Break", start_time |-> <<12, 35>>, end_time |-> <<13, 45>>, is_active |-> FALSE],
     [period |-> 5,    label |-> "Period 5",    start_time |-> <<13, 45>>, end_time |-> <<14, 35>>, is_active |-> TRUE],
     [period |-> 6,    label |-> "Period 6",    start_time |-> <<14, 35>>, end_time |-> <<15, 25>>, is_active |-> TRUE],
     [period |-> 7,    label |-> "Period 7",    start_time |-> <<15, 25>>, end_time |-> <<16, 15>>, is_active |-> TRUE] >>

\* ---------------------------------------------------------- periodManager
\* "HH:MM" (here the pair <<HH, MM>>) to minutes since midnight.
timeToMinutes(timeStr) == timeStr[1] * 60 + timeStr[2]

RECURSIVE ScanCurrentPeriod(_, _)
ScanCurrentPeriod(i, currentTime) ==
  IF i > Len(PERIOD_TIMETABLE) THEN None
  ELSE IF /\ currentTime >= timeToMinutes(PERIOD_TIMETABLE[i].start_time)
          /\ currentTime <  timeToMinutes(PERIOD_TIMETABLE[i].end_time)
       THEN i
       ELSE ScanCurrentPeriod(i + 1, currentTime)

\* getCurrentPeriod taking the end of a period as part of it.
getCurrentPeriodEndInclusive(currentTime) ==
  LET holding == { i \in DOMAIN PERIOD_TIMETABLE :
                     /\ currentTime >= timeToMinutes(PERIOD_TIMETABLE[i].start_time)
                     /\ currentTime <= timeToMinutes(PERIOD_TIMETABLE[i].end_time) }
  IN IF holding = {} THEN None
     ELSE CHOOSE i \in holding : \A j \in holding : i <= j

\* Index in the timetable of the current period, or None.
getCurrentPeriod(currentTime) == ScanCurrentPeriod(1, currentTime)

RECURSIVE ScanNextPeriod(_, _)
ScanNextPeriod(i, currentTime) ==
  IF i > Len(PERIOD_TIMETABLE) THEN None
  ELSE IF currentTime < timeToMinutes(PERIOD_TIMETABLE[i].start_time)
       THEN i
       ELSE ScanNextPeriod(i + 1, currentTime)

\* getNextPeriod taking a period that starts now as the next one.
getNextPeriodFromNow(currentTime) ==
  LET coming == { i \in DOMAIN PERIOD_TIMETABLE :
                    currentTime <= timeToMinutes(PERIOD_TIMETABLE[i].start_time) }
  IN IF coming = {} THEN None
     ELSE CHOOSE i \in coming : \A j \in coming : i <= j

\* Index in the timetable of the next period, or None.
getNextPeriod(currentTime) == ScanNextPeriod(1, currentTime)

\* getAttendanceWindow opening check-in only at the start of the period.
getAttendanceWindowOpeningAtStart(period, currentTime) ==
  LET p == PERIOD_TIMETABLE[period]
      startTime == timeToMinutes(p.start_time)
      endTime == timeToMinutes(p.end_time)
  IN [ canCheckIn  |-> currentTime >= startTime /\ currentTime <= startTime + 10 /\ p.is_active,
       canCheckOut |-> currentTime >= startTime /\ currentTime <= endTime /\ p.is_active,
       reason      |-> "" ]

\* getAttendanceWindow closing check-out before the last minute of the period.
getAttendanceWindowEndExclusive(period, currentTime) ==
  LET p == PERIOD_TIMETABLE[period]
      startTime == timeToMinutes(p.start_time)
      endTime == timeToMinutes(p.end_time)
  IN [ canCheckIn  |-> currentTime >= startTime - 5 /\ currentTime <= startTime + 10 /\ p.is_active,
       canCheckOut |-> currentTime >= startTime /\ currentTime < endTime /\ p.is_active,
       reason      |-> "" ]

\* The attendance window of period (an index of the timetable) at currentTime.
getAttendanceWindow(period, currentTime) ==
  LET p == PERIOD_TIMETABLE[period]
      startTime == timeToMinutes(p.start_time)
      endTime == timeToMinutes(p.end_time)
      attendanceWindowStart == startTime - 5
      attendanceWindowEnd == startTime + 10
  IN [ canCheckIn  |-> /\ currentTime >= attendanceWindowStart
                       /\ currentTime <= attendanceWindowEnd
                       /\ p.is_active,
       canCheckOut |-> /\ currentTime >= startTime
                       /\ currentTime <= endTime
                       /\ p.is_active,
       reason      |-> IF ~p.is_active THEN "Attendance not required for breaks"
                       ELSE IF currentTime < attendanceWindowStart THEN "Attendance window opens later"
                       ELSE IF currentTime > attendanceWindowEnd /\ currentTime < startTime + 10
                            THEN "Late check-in window"
                       ELSE IF currentTime > attendanceWindowEnd THEN "Attendance window closed"
                       ELSE "" ]

\* ------------------------------------------------------------- geolocation
\* geolib getDistance on the line of positions: whole metres.
getDistance(a, b) == IF a >= b THEN a - b ELSE b - a

\* isWithinGeofence leaving the boundary outside.
isWithinGeofenceStrict(location, geofence) ==
  getDistance(location.position, geofence.center) < geofence.radius

isWithinGeofence(location, geofence) ==
  getDistance(location.position, geofence.center) <= geofence.radius

getDistanceFromGeofence(location, geofence) ==
  getDistance(location.position, geofence.center)

\* location.accuracy ? location.accuracy <= 100 : false   (0 and undefined are falsy)
validateLocationAccuracy(location) ==
  IF location.accuracy # None /\ location.accuracy # 0
  THEN location.accuracy <= 100
  ELSE FALSE

\* The pair test of detectLocationSpoofing flagging a speed of exactly 50 m/s.
SpeedExceedsOrEquals(prev, curr) ==
  LET distance == IF prev.position >= curr.position THEN prev.position - curr.position
                  ELSE curr.position - prev.position
      timeDiff == curr.timestamp - prev.timestamp
  IN IF timeDiff > 0 THEN distance >= 50 * timeDiff
     ELSE IF timeDiff = 0 THEN distance > 0
     ELSE FALSE

\* speed > 50 for one consecutive pair; distance in metres, timestamps in seconds.
\* distance / 0 is Infinity for a positive distance and NaN (never > 50) for 0;
\* a negative elapsed time gives a speed <= 0.
SpeedExceeds(prev, curr) ==
  LET distance == getDistance(prev.position, curr.position)
      timeDiff == curr.timestamp - prev.timestamp
  IN IF timeDiff > 0 THEN distance > 50 * timeDiff
     ELSE IF timeDiff = 0 THEN distance > 0
     ELSE FALSE

detectLocationSpoofing(locations) ==
  IF Len(locations) < 2 THEN FALSE
  ELSE \E i \in 2 .. Len(locations) : SpeedExceeds(locations[i - 1], locations[i])

\* ------------------------------------------------------------------ state
VARIABLES
  now,                  \* local wall clock, minutes since midnight
  localDay,             \* local calendar day, counted from 1
  utcOffset,            \* local time minus UTC, minutes
  elapsed,              \* minutes since the page was opened
  records,              \* AttendanceService.records
  storedRecords,        \* localStorage 'attendanceRecords'
  nextId,               \* ids handed out by generateId
  task,                 \* in-flight markAttendance invocations
  lastCall,             \* the operation that ran last and what it returned
  registeredLocations,  \* GeolocationService.registeredLocations
  activeLocationId,     \* GeolocationService.activeLocationId
  storedLocations,      \* localStorage 'registeredLocations'
  storedActiveId,       \* localStorage 'activeLocationId'
  nextLocId,            \* ids handed out by registerLocation
  locationHistory,      \* useGeolocation locationHistoryRef.current
  hookError,            \* useGeolocation error code (None when unset)
  delivered,            \* samples delivered to the hook so far, in arrival order
  geolocationSupported, \* navigator.geolocation exists
  watchId,              \* GeolocationService.watchId
  watches,              \* position watches alive in the browser
  nextWatchId,          \* ids handed out by navigator.geolocation.watchPosition
  isActive,             \* BiometricTriggerService.isActive
  intervalId,           \* BiometricTriggerService.intervalId
  timers,               \* intervals alive in the browser
  nextTimerId,          \* ids handed out by setInterval
  triggeredPeriods,     \* BiometricTriggerService.triggeredPeriods
  locationCallbacks,    \* GeolocationService.callbacks, in subscription order
  consumers,            \* each useGeolocation consumer: "unmounted" or "watching"
  seen,                 \* the number of watch updates each consumer was called with
  notified,             \* trigger events handed to the subscribers so far
  sinceReset,           \* automatic events since the last start, stop or reset
  callbacks,            \* BiometricTriggerService.callbacks, in subscription order
  received,             \* the events each subscriber's callback was called with
  result                \* the function applied last, its input and its value

clockVars == <<now, localDay, utcOffset, elapsed>>
storeVars == <<records, storedRecords, nextId, task>>
registryVars == <<registeredLocations, activeLocationId, storedLocations, storedActiveId, nextLocId>>
hookVars == <<locationHistory, hookError, delivered>>
watchVars == <<geolocationSupported, watchId, watches, nextWatchId, locationCallbacks,
               consumers, seen>>
triggerVars == <<isActive, intervalId, timers, nextTimerId, triggeredPeriods, notified,
                 sinceReset, callbacks, received>>
serviceVars == <<watchVars, triggerVars>>
vars == <<now, localDay, utcOffset, elapsed, records, storedRecords, nextId, task, lastCall,
          registeredLocations, activeLocationId, storedLocations, storedActiveId, nextLocId,
          locationHistory, hookError, delivered,
          geolocationSupported, watchId, watches, nextWatchId,
          locationCallbacks, consumers, seen,
          isActive, intervalId, timers, nextTimerId, triggeredPeriods, notified,
          sinceReset, callbacks, received, result>>

\* ------------------------------------------------------------------- clock
\* Minutes since the UTC epoch of the model (day 0, 00:00 UTC).
UtcMinutes(day, minute, offset) == day * MinutesPerDay + minute - offset

\* new Date().toISOString().split('T')[0]: the UTC calendar date, as a day number.
getTodayDate(day, minute, offset) == UtcMinutes(day, minute, offset) \div MinutesPerDay

\* new Date().toTimeString().split(' ')[0]: the local time of day (minute resolution).
getCurrentTime(minute) == minute

\* new Date().toISOString(): the UTC instant (minute resolution).
toISOString(day, minute, offset) == UtcMinutes(day, minute, offset)

\* Date.now() in seconds.
DateNow(day, minute, offset) == UtcMinutes(day, minute, offset) * 60

\* --------------------------------------------------------- location inputs
\* Positions the location provider may report, metres from the origin.
Positions == {100, 101}
\* Accuracy radii the provider may report (None: the field is missing).
Accuracies == {None, 0, 100, 101}

Fixes == [kind : {"fix"}, cause : {"none"}, position : Positions, accuracy : Accuracies]
\* The ways getCurrentPosition rejects: the three GeolocationPositionError codes
\* and the Error thrown when navigator.geolocation is missing.
ProviderErrors ==
  [kind : {"error"},
   cause : {"permission denied", "position unavailable", "timeout", "unsupported"},
   position : {0}, accuracy : {None}]
\* Outcomes of navigator.geolocation.getCurrentPosition.
LocationOutcomes == Fixes \cup ProviderErrors

\* --------------------------------------------------------------- registry
RECURSIVE FindLocation(_, _, _)
\* Index of the first location with the given id, or None (find / findIndex).
FindLocation(locs, locationId, i) ==
  IF i > Len(locs) THEN None
  ELSE IF locs[i].id = locationId THEN i
  ELSE FindLocation(locs, locationId, i + 1)

\* The null RegisteredLocation and GeofenceArea (id None).
NullLocation == [id |-> None, position |-> 0, radiusMeters |-> 0, isActive |-> FALSE]
NullGeofence == [id |-> None, center |-> 0, radius |-> 0, isActive |-> FALSE]

getActiveLocation(locs, activeId) ==
  LET i == FindLocation(locs, activeId, 1)
  IN IF i = None THEN NullLocation ELSE locs[i]

getActiveGeofenceArea(locs, activeId) ==
  LET activeLocation == getActiveLocation(locs, activeId)
  IN IF activeLocation.id = None THEN NullGeofence
     ELSE [ id |-> activeLocation.id,
            center |-> activeLocation.position,
            radius |-> activeLocation.radiusMeters,
            isActive |-> activeLocation.isActive ]

\* ------------------------------------------------------- attendanceService
NullSample == [position |-> 0, accuracy |-> None, timestamp |-> None]

\* The null AttendanceRecord (id None).
NullRecord ==
  [ id |-> None, studentId |-> "", periodNumber |-> None, periodLabel |-> "", date |-> None,
    checkInTime |-> None, checkOutTime |-> None, status |-> "absent", location |-> NullSample,
    locationVerified |-> FALSE, distanceFromGeofence |-> None, createdAt |-> None, updatedAt |-> None ]

RECURSIVE FindRecord(_, _, _, _, _)
\* Index of the first record of the key (studentId, today, periodNumber), or None.
FindRecord(recs, studentId, periodNumber, today, i) ==
  IF i > Len(recs) THEN None
  ELSE IF /\ recs[i].studentId = studentId
          /\ recs[i].date = today
          /\ recs[i].periodNumber = periodNumber
       THEN i
       ELSE FindRecord(recs, studentId, periodNumber, today, i + 1)

getTodayAttendance(recs, studentId, periodNumber, today) ==
  LET i == FindRecord(recs, studentId, periodNumber, today, 1)
  IN IF i = None THEN NullRecord ELSE recs[i]

RECURSIVE FindRecordById(_, _, _)
\* this.records.findIndex(r => r.id === id), None for -1.
FindRecordById(recs, id, i) ==
  IF i > Len(recs) THEN None
  ELSE IF recs[i].id = id THEN i
  ELSE FindRecordById(recs, id, i + 1)

\* CheckInRejection without the look-up of an existing record.
CheckInRejectionNoExistingCheck(recs, studentId, currentTime, today) ==
  LET currentPeriod == getCurrentPeriod(currentTime)
  IN IF currentPeriod = None THEN "No active period found"
     ELSE IF ~PERIOD_TIMETABLE[currentPeriod].is_active
          THEN "Attendance not required during breaks"
     ELSE IF ~getAttendanceWindow(currentPeriod, currentTime).canCheckIn
          THEN "Attendance window closed"
     ELSE ""

\* The synchronous prefix of markAttendance: the message of the first check
\* that rejects the call at minute currentTime, "" when none does.
CheckInRejection(recs, studentId, currentTime, today) ==
  LET currentPeriod == getCurrentPeriod(currentTime)
  IN IF currentPeriod = None THEN "No active period found"
     ELSE IF ~PERIOD_TIMETABLE[currentPeriod].is_active
          THEN "Attendance not required during breaks"
     ELSE IF ~getAttendanceWindow(currentPeriod, currentTime).canCheckIn
          THEN IF getAttendanceWindow(currentPeriod, currentTime).reason # ""
               THEN getAttendanceWindow(currentPeriod, currentTime).reason
               ELSE "Attendance window is closed"
     ELSE IF getTodayAttendance(recs, studentId, PERIOD_TIMETABLE[currentPeriod].period, today).checkInTime # None
          THEN "Attendance already marked"
     ELSE ""

\* verifyLocation testing the geofence before the accuracy.
verifyLocationGeofenceFirst(outcome, activeGeofence, timestamp) ==
  LET currentLocation == [position |-> outcome.position, accuracy |-> outcome.accuracy,
                          timestamp |-> timestamp]
  IN IF outcome.kind = "error"
     THEN [verified |-> FALSE, location |-> NullSample, distance |-> None,
           error |-> "Location verification failed", rejected |-> FALSE]
     ELSE IF ~isWithinGeofence(currentLocation, activeGeofence)
     THEN [verified |-> FALSE, location |-> currentLocation,
           distance |-> getDistanceFromGeofence(currentLocation, activeGeofence),
           error |-> "You are away from the attendance location", rejected |-> FALSE]
     ELSE [verified |-> validateLocationAccuracy(currentLocation),
           location |-> currentLocation,
           distance |-> getDistanceFromGeofence(currentLocation, activeGeofence),
           error |-> IF validateLocationAccuracy(currentLocation) THEN ""
                     ELSE "Location accuracy too poor for attendance verification",
           rejected |-> FALSE]

\* verifyLocation without its catch: a rejection of getCurrentPosition is passed on.
verifyLocationUncaught(outcome, activeGeofence, timestamp) ==
  LET currentLocation == [position |-> outcome.position, accuracy |-> outcome.accuracy,
                          timestamp |-> timestamp]
  IN IF outcome.kind = "error"
     THEN [verified |-> FALSE, location |-> NullSample, distance |-> None,
           error |-> "", rejected |-> TRUE]
     ELSE IF ~validateLocationAccuracy(currentLocation)
     THEN [verified |-> FALSE, location |-> currentLocation, distance |-> None,
           error |-> "Location accuracy too poor for attendance verification",
           rejected |-> FALSE]
     ELSE [verified |-> isWithinGeofence(currentLocation, activeGeofence),
           location |-> currentLocation,
           distance |-> getDistanceFromGeofence(currentLocation, activeGeofence),
           error |-> IF isWithinGeofence(currentLocation, activeGeofence) THEN ""
                     ELSE "You are away from the attendance location",
           rejected |-> FALSE]

\* verifyLocation once the provider has answered with outcome; rejected tells
\* whether its promise is rejected instead of resolved.
verifyLocation(outcome, activeGeofence, timestamp) ==
  LET currentLocation == [position |-> outcome.position, accuracy |-> outcome.accuracy,
                          timestamp |-> timestamp]
  IN IF outcome.kind = "error"
     THEN [verified |-> FALSE, location |-> NullSample, distance |-> None,
           error |-> "Location verification failed", rejected |-> FALSE]
     ELSE IF ~validateLocationAccuracy(currentLocation)
     THEN [verified |-> FALSE, location |-> currentLocation, distance |-> None,
           error |-> "Location accuracy too poor for attendance verification",
           rejected |-> FALSE]
     ELSE [verified |-> isWithinGeofence(currentLocation, activeGeofence),
           location |-> currentLocation,
           distance |-> getDistanceFromGeofence(currentLocation, activeGeofence),
           error |-> IF isWithinGeofence(currentLocation, activeGeofence) THEN ""
                     ELSE "You are away from the attendance location",
           rejected |-> FALSE]

\* IsLate with the grace minute itself counted as late.
IsLateAtGrace(currentTime, periodStartTime) == currentTime >= periodStartTime + 5

\* const isLate = currentTime > periodStartTime + 5
IsLate(currentTime, periodStartTime) == currentTime > periodStartTime + 5

\* The record markAttendance builds after a verified location.
BuildRecord(existingRecord, newId, studentId, currentPeriod, verification, day, minute, offset) ==
  [ id |-> IF existingRecord.id # None THEN existingRecord.id ELSE newId,
    studentId |-> studentId,
    periodNumber |-> PERIOD_TIMETABLE[currentPeriod].period,
    periodLabel |-> PERIOD_TIMETABLE[currentPeriod].label,
    date |-> getTodayDate(day, minute, offset),
    checkInTime |-> getCurrentTime(minute),
    checkOutTime |-> None,
    status |-> IF IsLate(minute, timeToMinutes(PERIOD_TIMETABLE[currentPeriod].start_time))
               THEN "late" ELSE "present",
    location |-> [ position |-> verification.location.position,
                   accuracy |-> IF verification.location.accuracy = None THEN 0
                                ELSE verification.location.accuracy,
                   timestamp |-> verification.location.timestamp ],
    locationVerified |-> TRUE,
    distanceFromGeofence |-> verification.distance,
    createdAt |-> IF existingRecord.id # None THEN existingRecord.createdAt
                  ELSE toISOString(day, minute, offset),
    updatedAt |-> toISOString(day, minute, offset) ]

\* WriteRecord as an upsert by key: the record of the same key is overwritten.
WriteRecordOverKey(recs, existingRecord, record) ==
  LET index == FindRecord(recs, record.studentId, record.periodNumber, record.date, 1)
  IN IF index = None THEN Append(recs, record) ELSE [recs EXCEPT ![index] = record]

\* The write at the end of markAttendance: replace the record the call found
\* before it awaited the location, or append.
WriteRecord(recs, existingRecord, record) ==
  IF existingRecord.id # None
  THEN LET index == FindRecordById(recs, existingRecord.id, 1)
       IN IF index = None THEN recs ELSE [recs EXCEPT ![index] = record]
  ELSE Append(recs, record)

\* The mutation of markCheckOut on the record it found.
CheckOutRecord(existingRecord, day, minute, offset) ==
  [existingRecord EXCEPT !.checkOutTime = getCurrentTime(minute),
                         !.updatedAt = toISOString(day, minute, offset)]

\* CheckOutRejection without the test for an earlier check-out.
CheckOutRejectionNoPriorTest(recs, studentId, currentTime, today) ==
  LET currentPeriod == getCurrentPeriod(currentTime)
      existingRecord == getTodayAttendance(recs, studentId, PERIOD_TIMETABLE[currentPeriod].period, today)
  IN IF currentPeriod = None THEN "No active period found"
     ELSE IF existingRecord.id = None \/ existingRecord.checkInTime = None
          THEN "No check-in record found for this period"
     ELSE IF ~getAttendanceWindow(currentPeriod, currentTime).canCheckOut
          THEN "Check-out not allowed at this time"
     ELSE ""

\* The message with which markCheckOut rejects the call, "" when it accepts.
CheckOutRejection(recs, studentId, currentTime, today) ==
  LET currentPeriod == getCurrentPeriod(currentTime)
      existingRecord == getTodayAttendance(recs, studentId, PERIOD_TIMETABLE[currentPeriod].period, today)
  IN IF currentPeriod = None THEN "No active period found"
     ELSE IF existingRecord.id = None \/ existingRecord.checkInTime = None
          THEN "No check-in record found for this period"
     ELSE IF existingRecord.checkOutTime # None THEN "Already checked out for this period"
     ELSE IF ~getAttendanceWindow(currentPeriod, currentTime).canCheckOut
          THEN "Check-out not allowed at this time"
     ELSE ""

\* ----------------------------------------------------------------- actions
IdleTask == [pc |-> "idle", studentId |-> "", currentPeriod |-> None,
             existingRecord |-> NullRecord, activeGeofence |-> NullGeofence]

\* lastCall is a history variable: the handler that ran in the last step, its
\* arguments, what it returned, whether the step was the continuation after an
\* await (resumed) and with which provider outcome, and, for the registry, the
\* active location id before the call.
NoOutcome == [kind |-> "none", cause |-> "none", position |-> 0, accuracy |-> None]

NoCall ==
  [op |-> "init", studentId |-> "", locationId |-> None, returned |-> FALSE,
   success |-> FALSE, message |-> "", resumed |-> FALSE, outcome |-> NoOutcome,
   activeBefore |-> None, rejected |-> FALSE, thrown |-> {}, generated |-> 0]

\* lastCall after an operation on the record store has returned.
Returned(op, studentId, success, message) ==
  [NoCall EXCEPT !.op = op, !.studentId = studentId, !.returned = TRUE,
                 !.success = success, !.message = message]

\* lastCall after markAttendance has returned from its continuation.
ReturnedAfterFix(studentId, success, message, outcome) ==
  [Returned("markAttendance", studentId, success, message) EXCEPT
     !.resumed = TRUE, !.outcome = outcome]

\* lastCall after the promise of markAttendance has been rejected: the await of
\* verifyLocation threw and markAttendance catches nothing.
RejectedAfterFix(studentId, outcome) ==
  [NoCall EXCEPT !.op = "markAttendance", !.studentId = studentId, !.resumed = TRUE,
                 !.outcome = outcome, !.rejected = TRUE]

\* lastCall after a step that returns nothing (yet).
Pending(op, studentId) ==
  [NoCall EXCEPT !.op = op, !.studentId = studentId]

\* lastCall after an operation on the location registry has returned.
ReturnedLoc(op, locationId, success, activeBefore) ==
  [NoCall EXCEPT !.op = op, !.locationId = locationId, !.returned = TRUE,
                 !.success = success, !.activeBefore = activeBefore]

\* The slot a new invocation takes: the lowest one that is idle.
IsFreeSlot(t) ==
  /\ task[t].pc = "idle"
  /\ \A u \in Tasks : u < t => task[u].pc # "idle"

\* One minute of wall-clock time passes.
Tick ==
  /\ elapsed < Horizon
  /\ elapsed' = elapsed + 1
  /\ now' = (now + 1) % MinutesPerDay
  /\ localDay' = IF now + 1 = MinutesPerDay THEN localDay + 1 ELSE localDay
  /\ lastCall' = Pending("tick", "")
  /\ UNCHANGED <<utcOffset, storeVars, registryVars, hookVars, serviceVars, result>>

\* markAttendance(studentId) up to its await of the location fix.
MarkAttendanceBegin(t, studentId) ==
  LET today == getTodayDate(localDay, now, utcOffset)
      rejection == CheckInRejection(records, studentId, now, today)
      currentPeriod == getCurrentPeriod(now)
      activeGeofence == getActiveGeofenceArea(registeredLocations, activeLocationId)
  IN /\ IsFreeSlot(t)
     /\ IF rejection # ""
        THEN /\ lastCall' = Returned("markAttendance", studentId, FALSE, rejection)
             /\ UNCHANGED task
        ELSE IF activeGeofence.id = None
        THEN /\ lastCall' = Returned("markAttendance", studentId, FALSE,
                                     "No active location registered for attendance")
             /\ UNCHANGED task
        ELSE /\ task' = [task EXCEPT ![t] =
                           [ pc |-> "awaiting", studentId |-> studentId,
                             currentPeriod |-> currentPeriod,
                             existingRecord |-> getTodayAttendance(records, studentId,
                                                   PERIOD_TIMETABLE[currentPeriod].period, today),
                             activeGeofence |-> activeGeofence ]]
             /\ lastCall' = Pending("markAttendance", studentId)
     /\ UNCHANGED <<clockVars, records, storedRecords, nextId, registryVars, hookVars, serviceVars, result>>

\* markAttendance from the answer of the location provider to its return.
MarkAttendanceResume(t, outcome) ==
  LET verification == verifyLocation(outcome, task[t].activeGeofence,
                                     DateNow(localDay, now, utcOffset))
      record == BuildRecord(task[t].existingRecord, nextId, task[t].studentId,
                            task[t].currentPeriod, verification, localDay, now, utcOffset)
  IN /\ task[t].pc = "awaiting"
     /\ task' = [task EXCEPT ![t] = IdleTask]
     /\ IF verification.rejected
        THEN /\ lastCall' = RejectedAfterFix(task[t].studentId, outcome)
             /\ UNCHANGED <<records, storedRecords, nextId>>
        ELSE IF ~verification.verified
        THEN /\ lastCall' = ReturnedAfterFix(task[t].studentId, FALSE,
                                             IF verification.error # "" THEN verification.error
                                             ELSE "Location verification failed", outcome)
             /\ UNCHANGED <<records, storedRecords, nextId>>
        ELSE /\ records' = WriteRecord(records, task[t].existingRecord, record)
             /\ storedRecords' = records'
             /\ nextId' = IF task[t].existingRecord.id # None THEN nextId ELSE nextId + 1
             /\ lastCall' = ReturnedAfterFix(task[t].studentId, TRUE,
                                             "Attendance marked successfully", outcome)
     /\ UNCHANGED <<clockVars, registryVars, hookVars, serviceVars, result>>

\* markCheckOut(studentId): it awaits nothing, so it runs in one step.
MarkCheckOut(studentId) ==
  LET today == getTodayDate(localDay, now, utcOffset)
      rejection == CheckOutRejection(records, studentId, now, today)
      currentPeriod == getCurrentPeriod(now)
      existingRecord == getTodayAttendance(records, studentId,
                                           PERIOD_TIMETABLE[currentPeriod].period, today)
      index == FindRecordById(records, existingRecord.id, 1)
  IN /\ IF rejection # ""
        THEN /\ lastCall' = Returned("markCheckOut", studentId, FALSE, rejection)
             /\ UNCHANGED <<records, storedRecords>>
        ELSE /\ records' = [records EXCEPT ![index] = CheckOutRecord(existingRecord, localDay, now, utcOffset)]
             /\ storedRecords' = records'
             /\ lastCall' = Returned("markCheckOut", studentId, TRUE, "Checked out successfully")
     /\ UNCHANGED <<clockVars, nextId, task, registryVars, hookVars, serviceVars, result>>

\* Nothing applied yet.
NoResult == [fn |-> "", input |-> None, value |-> None]

\* ---------------------------------------------------------------- services
\* lastCall after startWatching, stopWatching, start or stop has returned;
\* activeBefore is 1 when the service was running at the call, 0 when not.
ReturnedService(op, wasRunning) ==
  [NoCall EXCEPT !.op = op, !.returned = TRUE,
                 !.activeBefore = IF wasRunning THEN 1 ELSE 0]

\* startWatching registering a watch whether or not one is held.
startWatchingUnguarded ==
  /\ geolocationSupported
  /\ nextWatchId <= MaxHandles
  /\ watchId' = nextWatchId
  /\ watches' = watches \cup {nextWatchId}
  /\ nextWatchId' = nextWatchId + 1
  /\ lastCall' = ReturnedService("startWatching", watchId # None)
  /\ UNCHANGED <<clockVars, storeVars, registryVars, hookVars, geolocationSupported,
                 locationCallbacks, consumers, seen,
                 triggerVars, result>>

\* GeolocationService.startWatching()
startWatching ==
  /\ IF ~geolocationSupported \/ watchId # None
     THEN UNCHANGED <<watchId, watches, nextWatchId>>
     ELSE /\ nextWatchId <= MaxHandles
          /\ watchId' = nextWatchId
          /\ watches' = watches \cup {nextWatchId}
          /\ nextWatchId' = nextWatchId + 1
  /\ lastCall' = ReturnedService("startWatching", watchId # None)
  /\ UNCHANGED <<clockVars, storeVars, registryVars, hookVars, geolocationSupported,
                 locationCallbacks, consumers, seen,
                 triggerVars, result>>

\* GeolocationService.stopWatching()
stopWatching ==
  /\ IF watchId # None
     THEN /\ watches' = watches \ {watchId}
          /\ watchId' = None
     ELSE UNCHANGED <<watchId, watches>>
  /\ lastCall' = ReturnedService("stopWatching", watchId # None)
  /\ UNCHANGED <<clockVars, storeVars, registryVars, hookVars, geolocationSupported,
                 locationCallbacks, consumers, seen,
                 nextWatchId, triggerVars, result>>

\* The keys of triggeredPeriods: periodKey of a timetable entry, or its windowKey.
PeriodKey(period) == [entry |-> period, window |-> FALSE]
WindowKey(period) == [entry |-> period, window |-> TRUE]

\* checkPeriodStatus without the look-up of periodKey in triggeredPeriods: every
\* run during the last five minutes of a period hands out a 'period_ending' event.
checkPeriodStatusRepeating(triggered, currentTime) ==
  LET currentPeriod == getCurrentPeriod(currentTime)
      p == PERIOD_TIMETABLE[currentPeriod]
      remaining == timeToMinutes(p.end_time) - currentTime
      timeRemaining == IF remaining > 0 THEN remaining ELSE 0
      ending == timeRemaining <= 5 /\ timeRemaining > 0
  IN IF currentPeriod = None THEN [triggered |-> triggered, events |-> << >>]
     ELSE IF ~p.is_active THEN [triggered |-> triggered, events |-> << >>]
     ELSE [ triggered |-> IF ending THEN triggered \cup {PeriodKey(currentPeriod)}
                          ELSE triggered,
            events |-> IF ending
                       THEN << [period |-> currentPeriod, minutesRemaining |-> timeRemaining,
                                reason |-> "period_ending"] >>
                       ELSE << >> ]

\* BiometricTriggerService.checkPeriodStatus(): the set of triggered keys it
\* leaves and the events it hands to the subscribers, in order.
checkPeriodStatus(triggered, currentTime) ==
  LET currentPeriod == getCurrentPeriod(currentTime)
      p == PERIOD_TIMETABLE[currentPeriod]
      remaining == timeToMinutes(p.end_time) - currentTime
      timeRemaining == IF remaining > 0 THEN remaining ELSE 0
      ending == /\ timeRemaining <= 5 /\ timeRemaining > 0
                /\ PeriodKey(currentPeriod) \notin triggered
      afterEnding == IF ending THEN triggered \cup {PeriodKey(currentPeriod)} ELSE triggered
      closing == /\ getAttendanceWindow(currentPeriod, currentTime).canCheckIn
                 /\ timeRemaining <= 2 /\ timeRemaining > 0
                 /\ WindowKey(currentPeriod) \notin afterEnding
      event(reason) == [period |-> currentPeriod, minutesRemaining |-> timeRemaining,
                        reason |-> reason]
  IN IF currentPeriod = None THEN [triggered |-> triggered, events |-> << >>]
     ELSE IF ~p.is_active THEN [triggered |-> triggered, events |-> << >>]
     ELSE [ triggered |-> IF closing THEN afterEnding \cup {WindowKey(currentPeriod)}
                          ELSE afterEnding,
            events |-> (IF ending THEN << event("period_ending") >> ELSE << >>)
                       \o (IF closing THEN << event("attendance_window_closing") >> ELSE << >>) ]

\* The components that subscribe to the trigger service.
Subscribers == {"a", "b"}

\* The components that call useGeolocation().
Consumers == {"c1", "c2"}

\* How often subscriber c stands in the list of callbacks.
Subscriptions(cbs, c) == Cardinality({ i \in DOMAIN cbs : cbs[i] = c })

\* notifyCallbacks without its try / catch: the first callback that throws ends
\* the forEach, so the callbacks behind it are not called.
notifyCallbacksUncaught(cbs, rcv, event, throwing) ==
  LET throwers == { i \in DOMAIN cbs : cbs[i] \in throwing }
      last == IF throwers = {} THEN Len(cbs)
              ELSE CHOOSE i \in throwers : \A j \in throwers : i <= j
  IN [c \in Subscribers |->
        rcv[c] \o [k \in 1 .. Cardinality({ i \in 1 .. last : cbs[i] = c }) |-> event]]

\* BiometricTriggerService.notifyCallbacks(event): every callback of the list is
\* called with the event; one that throws (c \in throwing) is caught and logged.
notifyCallbacks(cbs, rcv, event, throwing) ==
  [c \in Subscribers |-> rcv[c] \o [k \in 1 .. Subscriptions(cbs, c) |-> event]]

RECURSIVE NotifyAll(_, _, _, _)
\* notifyCallbacks for each of the events, in order.
NotifyAll(cbs, rcv, events, throwing) ==
  IF events = << >> THEN rcv
  ELSE NotifyAll(cbs, notifyCallbacks(cbs, rcv, Head(events), throwing), Tail(events), throwing)

\* lastCall after a step of the trigger service that generated events while the
\* callbacks of thrown threw.
Triggered(op, wasRunning, events, throwing) ==
  [ReturnedService(op, wasRunning) EXCEPT
     !.generated = Len(events),
     !.thrown = IF events = << >> THEN {}
                ELSE { c \in throwing : Subscriptions(callbacks, c) > 0 }]

\* BiometricTriggerService.start()
start(throwing) ==
  LET checked == checkPeriodStatus({}, now)
  IN /\ IF isActive
        THEN /\ UNCHANGED triggerVars
             /\ lastCall' = ReturnedService("start", isActive)
        ELSE /\ nextTimerId <= MaxHandles
             /\ isActive' = TRUE
             /\ intervalId' = nextTimerId
             /\ timers' = timers \cup {nextTimerId}
             /\ nextTimerId' = nextTimerId + 1
             /\ triggeredPeriods' = checked.triggered
             /\ notified' = notified \o checked.events
             /\ sinceReset' = checked.events
             /\ received' = NotifyAll(callbacks, received, checked.events, throwing)
             /\ UNCHANGED callbacks
             /\ lastCall' = Triggered("start", isActive, checked.events, throwing)
     /\ UNCHANGED <<clockVars, storeVars, registryVars, hookVars, watchVars, result>>

\* BiometricTriggerService.stop()
stop ==
  /\ IF ~isActive
     THEN UNCHANGED triggerVars
     ELSE /\ isActive' = FALSE
          /\ IF intervalId # None
             THEN timers' = timers \ {intervalId} /\ intervalId' = None
             ELSE UNCHANGED <<timers, intervalId>>
          /\ triggeredPeriods' = {}
          /\ sinceReset' = << >>
          /\ UNCHANGED <<nextTimerId, notified, callbacks, received>>
  /\ lastCall' = ReturnedService("stop", isActive)
  /\ UNCHANGED <<clockVars, storeVars, registryVars, hookVars, watchVars, result>>

\* The callback of a live interval runs: checkPeriodStatus().
IntervalFires(timer, throwing) ==
  LET checked == checkPeriodStatus(triggeredPeriods, now)
  IN /\ timer \in timers
     /\ triggeredPeriods' = checked.triggered
     /\ notified' = notified \o checked.events
     /\ sinceReset' = sinceReset \o checked.events
     /\ received' = NotifyAll(callbacks, received, checked.events, throwing)
     /\ lastCall' = Triggered("checkPeriodStatus", isActive, checked.events, throwing)
     /\ UNCHANGED <<clockVars, storeVars, registryVars, hookVars, watchVars,
                    isActive, intervalId, timers, nextTimerId, callbacks, result>>

\* BiometricTriggerService.resetTriggeredPeriods()
resetTriggeredPeriods ==
  /\ Len(notified) < MaxEvents
  /\ triggeredPeriods' = {}
  /\ sinceReset' = << >>
  /\ lastCall' = ReturnedService("resetTriggeredPeriods", isActive)
  /\ UNCHANGED <<clockVars, storeVars, registryVars, hookVars, watchVars,
                 isActive, intervalId, timers, nextTimerId, notified, callbacks, received,
                 result>>

\* BiometricTriggerService.manualTrigger()
manualTrigger(throwing) ==
  LET currentPeriod == getCurrentPeriod(now)
      p == PERIOD_TIMETABLE[currentPeriod]
      remaining == timeToMinutes(p.end_time) - now
      events == IF currentPeriod = None THEN << >>
                ELSE IF ~p.is_active THEN << >>
                ELSE << [period |-> currentPeriod,
                         minutesRemaining |-> IF remaining > 0 THEN remaining ELSE 0,
                         reason |-> "period_ending"] >>
  IN /\ Len(notified) < MaxEvents
     /\ notified' = notified \o events
     /\ received' = NotifyAll(callbacks, received, events, throwing)
     /\ lastCall' = Triggered("manualTrigger", isActive, events, throwing)
     /\ UNCHANGED <<clockVars, storeVars, registryVars, hookVars, watchVars,
                    isActive, intervalId, timers, nextTimerId, triggeredPeriods, sinceReset,
                    callbacks, result>>

\* BiometricTriggerService.subscribe(callback)
subscribe(c) ==
  /\ Len(callbacks) < MaxSubscriptions
  /\ callbacks' = Append(callbacks, c)
  /\ lastCall' = ReturnedService("subscribe", isActive)
  /\ UNCHANGED <<clockVars, storeVars, registryVars, hookVars, watchVars,
                 isActive, intervalId, timers, nextTimerId, triggeredPeriods, notified,
                 sinceReset, received, result>>

\* The unsubscribe function subscribe returned: the first entry of c is removed.
unsubscribe(c) ==
  LET held == { i \in DOMAIN callbacks : callbacks[i] = c }
      index == CHOOSE i \in held : \A j \in held : i <= j
  IN /\ callbacks' = IF held = {} THEN callbacks
                     ELSE SubSeq(callbacks, 1, index - 1)
                          \o SubSeq(callbacks, index + 1, Len(callbacks))
     /\ lastCall' = ReturnedService("unsubscribe", isActive)
     /\ UNCHANGED <<clockVars, storeVars, registryVars, hookVars, watchVars,
                    isActive, intervalId, timers, nextTimerId, triggeredPeriods, notified,
                    sinceReset, received, result>>

\* The effect of a useGeolocation consumer after its first position arrived:
\* geolocationService.startWatching(), then onLocationUpdate(callback).
EffectStarts(c) ==
  /\ consumers[c] = "unmounted"
  /\ geolocationSupported
  /\ IF watchId # None
     THEN UNCHANGED <<watchId, watches, nextWatchId>>
     ELSE /\ nextWatchId <= MaxHandles
          /\ watchId' = nextWatchId
          /\ watches' = watches \cup {nextWatchId}
          /\ nextWatchId' = nextWatchId + 1
  /\ Len(locationCallbacks) < MaxSubscriptions
  /\ locationCallbacks' = Append(locationCallbacks, c)
  /\ consumers' = [consumers EXCEPT ![c] = "watching"]
  /\ lastCall' = ReturnedService("useGeolocation", watchId # None)
  /\ UNCHANGED <<clockVars, storeVars, registryVars, hookVars, geolocationSupported, seen,
                 triggerVars, result>>

\* The cleanup of a consumer's effect: unsubscribeLocation(), unsubscribeError(),
\* geolocationService.stopWatching().
EffectCleanup(c) ==
  LET held == { i \in DOMAIN locationCallbacks : locationCallbacks[i] = c }
      index == CHOOSE i \in held : \A j \in held : i <= j
  IN /\ consumers[c] = "watching"
     /\ locationCallbacks' = IF held = {} THEN locationCallbacks
                             ELSE SubSeq(locationCallbacks, 1, index - 1)
                                  \o SubSeq(locationCallbacks, index + 1, Len(locationCallbacks))
     /\ IF watchId # None
        THEN /\ watches' = watches \ {watchId}
             /\ watchId' = None
        ELSE UNCHANGED <<watchId, watches>>
     /\ consumers' = [consumers EXCEPT ![c] = "unmounted"]
     /\ lastCall' = ReturnedService("cleanup", watchId # None)
     /\ UNCHANGED <<clockVars, storeVars, registryVars, hookVars, geolocationSupported,
                    nextWatchId, seen, triggerVars, result>>

\* The browser reports a position to a live watch: every callback of the
\* service is called with it.
WatchFires(watch) ==
  /\ watch \in watches
  /\ \A c \in Consumers : seen[c] < MaxDelivered
  /\ seen' = [c \in Consumers |-> seen[c] + Subscriptions(locationCallbacks, c)]
  /\ lastCall' = ReturnedService("watchPosition", watchId # None)
  /\ UNCHANGED <<clockVars, storeVars, registryVars, hookVars, geolocationSupported,
                 watchId, watches, nextWatchId, locationCallbacks, consumers,
                 triggerVars, result>>

\* A minute passes with the service left alone: the clock moves to the next
\* minute and the 30-second interval, when one is alive, runs checkPeriodStatus()
\* in it (a second run in the same minute finds its keys set and does nothing).
MinuteWithTimer ==
  LET minute == (now + 1) % MinutesPerDay
      day == IF now + 1 = MinutesPerDay THEN localDay + 1 ELSE localDay
      checked == IF timers = {} THEN [triggered |-> triggeredPeriods, events |-> << >>]
                 ELSE checkPeriodStatus(triggeredPeriods, minute)
  IN /\ day <= MaxDays
     /\ now' = minute
     /\ localDay' = day
     /\ elapsed' = elapsed + 1
     /\ triggeredPeriods' = checked.triggered
     /\ notified' = notified \o checked.events
     /\ sinceReset' = sinceReset \o checked.events
     /\ received' = NotifyAll(callbacks, received, checked.events, {})
     /\ lastCall' = Triggered("minute", isActive, checked.events, {})
     /\ UNCHANGED <<utcOffset, storeVars, registryVars, hookVars, watchVars,
                    isActive, intervalId, timers, nextTimerId, callbacks, result>>

\* ------------------------------------------------------ functions applied
\* Positions of the samples of a history, metres from the origin.
HistoryPositions == {0, 100, 101, 10000}
\* Seconds between one sample of a history and the next.
HistoryGaps == {0, 2, 60, 3600}

RECURSIVE TimestampOf(_, _)
\* The timestamp of sample i when gaps[k] seconds pass before sample k.
TimestampOf(gaps, i) == IF i <= 1 THEN 0 ELSE TimestampOf(gaps, i - 1) + gaps[i]

\* Histories of n samples stamped on arrival, so in the order of their timestamps.
HistoriesOfLength(n) ==
  { [i \in 1 .. n |-> [position |-> f[i][1], accuracy |-> 100,
                       timestamp |-> TimestampOf([k \in 1 .. n |-> f[k][2]], i)]] :
      f \in [1 .. n -> HistoryPositions \X HistoryGaps] }

Histories == UNION { HistoriesOfLength(n) : n \in 0 .. MaxHistory }

\* The sample getCurrentPosition builds from a fix.
SampleOf(fix) ==
  [position |-> fix.position, accuracy |-> fix.accuracy,
   timestamp |-> DateNow(localDay, now, utcOffset)]

\* A function of the services is applied; nothing else changes.
Applied(fn, input, value) ==
  /\ result' = [fn |-> fn, input |-> input, value |-> value]
  /\ UNCHANGED <<clockVars, storeVars, lastCall, registryVars, hookVars, serviceVars>>

DetectLocationSpoofing ==
  Applied("detectLocationSpoofing", locationHistory, detectLocationSpoofing(locationHistory))

ValidateLocationAccuracy(fix) ==
  Applied("validateLocationAccuracy", SampleOf(fix), validateLocationAccuracy(SampleOf(fix)))

IsWithinGeofence(fix) ==
  Applied("isWithinGeofence", SampleOf(fix),
          isWithinGeofence(SampleOf(fix), getActiveGeofenceArea(registeredLocations, activeLocationId)))

GetDistanceFromGeofence(fix) ==
  Applied("getDistanceFromGeofence", SampleOf(fix),
          getDistanceFromGeofence(SampleOf(fix), getActiveGeofenceArea(registeredLocations, activeLocationId)))

GetCurrentPeriod == Applied("getCurrentPeriod", now, getCurrentPeriod(now))

GetNextPeriod == Applied("getNextPeriod", now, getNextPeriod(now))

GetAttendanceWindow(period) ==
  Applied("getAttendanceWindow", [period |-> period, currentTime |-> now],
          getAttendanceWindow(period, now))

\* ------------------------------------------------------ statistics, export
\* Days the statistics look back, and the last day of the stores they run over.
StatDays == 1 .. MaxStatDays
StatDates == 1 .. MaxStatDate

\* Date.getDay() of a calendar date given as a day number since the epoch (a
\* Thursday); the offsets of the model are not negative, so the local date of
\* the UTC midnight that new Date('YYYY-MM-DD') denotes is that date.
getDay(date) == (date + 4) % 7

\* PeriodManager.getActivePeriods()
getActivePeriods == SelectSeq(PERIOD_TIMETABLE, LAMBDA period : period.is_active)

\* AttendanceService.getAttendanceByDateRange(studentId, startDate, endDate)
getAttendanceByDateRange(recs, studentId, startDate, endDate) ==
  SelectSeq(recs, LAMBDA record : /\ record.studentId = studentId
                                  /\ record.date >= startDate
                                  /\ record.date <= endDate)

RECURSIVE SortByDateDescending(_)
\* Array.sort((a, b) => b.date - a.date): stable, latest date first.
SortByDateDescending(recs) ==
  IF recs = << >> THEN << >>
  ELSE LET sortedTail == SortByDateDescending(Tail(recs))
           first == Head(recs)
           before == { i \in DOMAIN sortedTail : sortedTail[i].date > first.date }
       IN SubSeq(sortedTail, 1, Cardinality(before)) \o << first >>
          \o SubSeq(sortedTail, Cardinality(before) + 1, Len(sortedTail))

RECURSIVE StreakLoop(_, _)
\* for (const record of sortedRecords) { if present or late: currentStreak++; else break }
StreakLoop(sortedRecords, i) ==
  IF i > Len(sortedRecords) THEN 0
  ELSE IF sortedRecords[i].status \in {"present", "late"}
       THEN 1 + StreakLoop(sortedRecords, i + 1)
       ELSE 0

\* The streak computation shared by both statistics functions.
currentStreak(recs) ==
  StreakLoop(SortByDateDescending(
               SelectSeq(recs, LAMBDA record : record.status \in {"present", "late"})), 1)

\* The AttendanceStats both statistics functions return; attendanceRate is the
\* exact quotient <<numerator, denominator>> of the percentage.
AttendanceStats(recs, totalPossiblePeriods) ==
  LET presentCount == Len(SelectSeq(recs, LAMBDA record : record.status = "present"))
      lateCount == Len(SelectSeq(recs, LAMBDA record : record.status = "late"))
  IN [ totalPeriods |-> totalPossiblePeriods,
       presentCount |-> presentCount,
       absentCount |-> totalPossiblePeriods - presentCount - lateCount,
       lateCount |-> lateCount,
       attendanceRate |-> IF totalPossiblePeriods > 0
                          THEN << (presentCount + lateCount) * 100, totalPossiblePeriods >>
                          ELSE << 0, 1 >>,
       currentStreak |-> currentStreak(recs) ]

\* AttendanceService.getAttendanceStats(studentId, days)
getAttendanceStats(recs, studentId, days, today) ==
  AttendanceStats(getAttendanceByDateRange(recs, studentId, today - days, today),
                  days * Len(getActivePeriods))

\* AttendanceService.getAttendanceStatsByDateRange(studentId, startDate, endDate)
getAttendanceStatsByDateRange(recs, studentId, startDate, endDate) ==
  LET workingDays == Cardinality({ d \in startDate .. endDate : getDay(d) # 0 /\ getDay(d) # 6 })
  IN AttendanceStats(getAttendanceByDateRange(recs, studentId, startDate, endDate),
                     workingDays * Len(getActivePeriods))

\* The characters of the string literals that reach the export.
Spell(str) ==
  CASE str = "present" -> <<"p", "r", "e", "s", "e", "n", "t">>
    [] str = "late" -> <<"l", "a", "t", "e">>
    [] str = "absent" -> <<"a", "b", "s", "e", "n", "t">>
    [] str = "Yes" -> <<"Y", "e", "s">>
    [] str = "No" -> <<"N", "o">>
    [] str = "Period 1" -> <<"P", "e", "r", "i", "o", "d", " ", "1">>
    [] str = "Period 2" -> <<"P", "e", "r", "i", "o", "d", " ", "2">>
    [] str = "Period 3" -> <<"P", "e", "r", "i", "o", "d", " ", "3">>
    [] str = "Period 4" -> <<"P", "e", "r", "i", "o", "d", " ", "4">>
    [] str = "Period 5" -> <<"P", "e", "r", "i", "o", "d", " ", "5">>
    [] str = "Period 6" -> <<"P", "e", "r", "i", "o", "d", " ", "6">>
    [] str = "Period 7" -> <<"P", "e", "r", "i", "o", "d", " ", "7">>
    [] str = "Break" -> <<"B", "r", "e", "a", "k">>
    [] str = "Lunch Break" -> <<"L", "u", "n", "c", "h", " ", "B", "r", "e", "a", "k">>
    [] str = "Date" -> <<"D", "a", "t", "e">>
    [] str = "Period" -> <<"P", "e", "r", "i", "o", "d">>
    [] str = "Period Label" -> <<"P", "e", "r", "i", "o", "d", " ", "L", "a", "b", "e", "l">>
    [] str = "Check In Time" -> <<"C", "h", "e", "c", "k", " ", "I", "n", " ", "T", "i", "m", "e">>
    [] str = "Check Out Time" -> <<"C", "h", "e", "c", "k", " ", "O", "u", "t", " ", "T", "i", "m", "e">>
    [] str = "Status" -> <<"S", "t", "a", "t", "u", "s">>
    [] str = "Location Verified" -> <<"L", "o", "c", "a", "t", "i", "o", "n", " ", "V", "e", "r", "i", "f", "i", "e", "d">>
    [] str = "Distance (m)" -> <<"D", "i", "s", "t", "a", "n", "c", "e", " ", "(", "m", ")">>
    [] str = "Latitude" -> <<"L", "a", "t", "i", "t", "u", "d", "e">>
    [] str = "Longitude" -> <<"L", "o", "n", "g", "i", "t", "u", "d", "e">>
    [] str = "Accuracy (m)" -> <<"A", "c", "c", "u", "r", "a", "c", "y", " ", "(", "m", ")">>
    [] str = "1970-01-" -> <<"1", "9", "7", "0", "-", "0", "1", "-">>
    [] str = ":00" -> <<":", "0", "0">>
    [] OTHER -> << >>

DigitChar == <<"0", "1", "2", "3", "4", "5", "6", "7", "8", "9">>

RECURSIVE NumberToString(_)
\* Number.prototype.toString() of a natural number.
NumberToString(n) ==
  IF n < 10 THEN << DigitChar[n + 1] >>
  ELSE NumberToString(n \div 10) \o << DigitChar[(n % 10) + 1] >>

\* String(n).padStart(2, '0')
PadTwo(n) == << DigitChar[(n \div 10) + 1], DigitChar[(n % 10) + 1] >>

\* toISOString().split('T')[0] of a day number; the dates of the model lie in
\* the first month of the epoch year.
DateString(date) == Spell("1970-01-") \o PadTwo(date + 1)

\* toTimeString().split(' ')[0] of a minute of the day: HH:MM:SS.
TimeString(minute) == PadTwo(minute \div 60) \o << ":" >> \o PadTwo(minute % 60) \o Spell(":00")

\* value?.toString() || ''
OptionalNumber(value) == IF value = None THEN << >> ELSE NumberToString(value)

RECURSIVE Join(_, _)
\* Array.prototype.join(separator) over strings given as character sequences.
Join(parts, separator) ==
  IF parts = << >> THEN << >>
  ELSE IF Len(parts) = 1 THEN parts[1]
  ELSE parts[1] \o << separator >> \o Join(Tail(parts), separator)

\* String.prototype.split(separator)
Split(text, separator) ==
  LET cuts == { i \in DOMAIN text : text[i] = separator }
      cut(k) == IF k = 0 THEN 0
                ELSE IF k > Cardinality(cuts) THEN Len(text) + 1
                ELSE CHOOSE i \in cuts : Cardinality({ j \in cuts : j < i }) = k - 1
  IN [k \in 1 .. Cardinality(cuts) + 1 |-> SubSeq(text, cut(k - 1) + 1, cut(k) - 1)]

\* The header row of the export.
CsvHeaders ==
  << Spell("Date"), Spell("Period"), Spell("Period Label"), Spell("Check In Time"),
     Spell("Check Out Time"), Spell("Status"), Spell("Location Verified"),
     Spell("Distance (m)"), Spell("Latitude"), Spell("Longitude"), Spell("Accuracy (m)") >>

\* The row of one record; positions lie on the line of longitude 0.
CsvRow(record) ==
  << DateString(record.date),
     OptionalNumber(record.periodNumber),
     Spell(record.periodLabel),
     IF record.checkInTime = None THEN << >> ELSE TimeString(record.checkInTime),
     IF record.checkOutTime = None THEN << >> ELSE TimeString(record.checkOutTime),
     Spell(record.status),
     IF record.locationVerified THEN Spell("Yes") ELSE Spell("No"),
     OptionalNumber(record.distanceFromGeofence),
     NumberToString(record.location.position),
     NumberToString(0),
     NumberToString(record.location.accuracy) >>

\* exportAttendanceCSV joining its rows without a line separator between the
\* header and the first record.
exportAttendanceCSVMerged(recs, studentId, startDate, endDate) ==
  LET selected == IF startDate # None /\ endDate # None
                  THEN getAttendanceByDateRange(recs, studentId, startDate, endDate)
                  ELSE SelectSeq(recs, LAMBDA record : record.studentId = studentId)
      data == [k \in DOMAIN selected |-> Join(CsvRow(selected[k]), ",")]
  IN IF data = << >> THEN Join(CsvHeaders, ",")
     ELSE Join(CsvHeaders, ",") \o << "," >> \o Join(data, "\n")

\* AttendanceService.exportAttendanceCSV(studentId, startDate?, endDate?)
exportAttendanceCSV(recs, studentId, startDate, endDate) ==
  LET selected == IF startDate # None /\ endDate # None
                  THEN getAttendanceByDateRange(recs, studentId, startDate, endDate)
                  ELSE SelectSeq(recs, LAMBDA record : record.studentId = studentId)
      rows == << CsvHeaders >> \o [k \in DOMAIN selected |-> CsvRow(selected[k])]
  IN Join([k \in DOMAIN rows |-> Join(rows[k], ",")], "\n")

GetAttendanceStats(studentId, days) ==
  LET today == getTodayDate(localDay, now, utcOffset)
  IN Applied("getAttendanceStats",
             [studentId |-> studentId, startDate |-> today - days, endDate |-> today],
             getAttendanceStats(records, studentId, days, today))

GetAttendanceStatsByDateRange(studentId, startDate, endDate) ==
  Applied("getAttendanceStatsByDateRange",
          [studentId |-> studentId, startDate |-> startDate, endDate |-> endDate],
          getAttendanceStatsByDateRange(records, studentId, startDate, endDate))

ExportAttendanceCSV(studentId, startDate, endDate) ==
  /\ Len(records) <= MaxExport
  /\ Applied("exportAttendanceCSV",
             [studentId |-> studentId, startDate |-> startDate, endDate |-> endDate],
             exportAttendanceCSV(records, studentId, startDate, endDate))

\* The record markAttendance wrote for a period of a date, checked in at the
\* start of the period or, when late, six minutes after it.
WrittenRecord(id, date, period, late) ==
  LET entry == CHOOSE i \in DOMAIN PERIOD_TIMETABLE : PERIOD_TIMETABLE[i].period = period
      minute == timeToMinutes(PERIOD_TIMETABLE[entry].start_time) + (IF late THEN 6 ELSE 0)
      geofence == [id |-> 1, center |-> 0, radius |-> 100, isActive |-> TRUE]
      fix == [kind |-> "fix", cause |-> "none", position |-> 100, accuracy |-> 100]
  IN BuildRecord(NullRecord, id, "s1", entry,
                 verifyLocation(fix, geofence, DateNow(date, minute, 0)), date, minute, 0)

\* What a student marked on one day: nothing, the first two periods, or all
\* seven periods; the last period marked was marked late.
DayPatterns == {0, 2, 7}

RECURSIVE StoreOf(_, _, _)
\* The store after the days from date on were attended as pattern tells, ids
\* continuing from id.
StoreOf(pattern, date, id) ==
  IF date > MaxStatDate THEN << >>
  ELSE [k \in 1 .. pattern[date] |-> WrittenRecord(id + k - 1, date, k, k = pattern[date])]
       \o StoreOf(pattern, date + 1, id + pattern[date])

\* ------------------------------------------------------ useGeolocation hook
\* Samples kept in the rolling history.
HistoryLimit == 10
\* The error code the hook sets when it suspects spoofing.
SpoofingErrorCode == 999
\* Fixes the position watch delivers to the hook.
WatchFixes == [kind : {"fix"}, position : {0, 10000}, accuracy : {100}]

\* The history pushed to and never trimmed.
PushHistoryUntrimmed(history, location) == Append(history, location)

\* locationHistoryRef.current after push and trim.
PushHistory(history, location) ==
  LET pushed == Append(history, location)
  IN IF Len(pushed) > HistoryLimit THEN Tail(pushed) ELSE pushed

\* The hook's onLocationUpdate callback for one delivered sample.
OnLocationUpdate(fix) ==
  LET location == [position |-> fix.position, accuracy |-> fix.accuracy,
                   timestamp |-> DateNow(localDay, now, utcOffset)]
  IN /\ delivered' = Append(delivered, location)
     /\ locationHistory' = PushHistory(locationHistory, location)
     /\ hookError' = IF detectLocationSpoofing(locationHistory') THEN SpoofingErrorCode
                     ELSE hookError
     /\ lastCall' = Pending("onLocationUpdate", "")
     /\ UNCHANGED <<clockVars, storeVars, registryVars, serviceVars, result>>

\* -------------------------------------------------------- registry actions
\* Radii and positions a location is registered with.
Radii == {100}
LocationIds == 1 .. MaxLocations
\* Partial<Omit<RegisteredLocation, 'id' | 'createdAt'>>: the fields an update sets.
LocationUpdates == [setIsActive : BOOLEAN, isActive : BOOLEAN, setRadius : BOOLEAN, radiusMeters : {50}]

\* registeredLocations.forEach(loc => loc.isActive = false)
DeactivateAll(locs) == [i \in 1 .. Len(locs) |-> [locs[i] EXCEPT !.isActive = FALSE]]

\* splice(index, 1)
RemoveAt(locs, index) ==
  [i \in 1 .. Len(locs) - 1 |-> IF i < index THEN locs[i] ELSE locs[i + 1]]

\* Object.assign(location, updates)
ApplyUpdates(location, updates) ==
  [location EXCEPT !.isActive = IF updates.setIsActive THEN updates.isActive ELSE @,
                   !.radiusMeters = IF updates.setRadius THEN updates.radiusMeters ELSE @]

\* DeleteFrom without the promotion of a remaining location.
DeleteFromNoPromotion(locs, index, activeId) == RemoveAt(locs, index)

\* The list after deleteLocation has removed index and promoted the first
\* remaining location when the removed one was active.
DeleteFrom(locs, index, activeId) ==
  LET rest == RemoveAt(locs, index)
  IN IF activeId = locs[index].id /\ Len(rest) > 0
     THEN [rest EXCEPT ![1].isActive = TRUE]
     ELSE rest

\* saveRegisteredLocations: the active id is written only when it is set.
SaveRegisteredLocations ==
  /\ storedLocations' = registeredLocations'
  /\ storedActiveId' = IF activeLocationId' # None THEN activeLocationId' ELSE storedActiveId

registerLocation(position, radiusMeters) ==
  LET newLocation == [id |-> nextLocId, position |-> position, radiusMeters |-> radiusMeters,
                      isActive |-> TRUE]
  IN /\ nextLocId <= MaxLocations
     /\ registeredLocations' = Append(DeactivateAll(registeredLocations), newLocation)
     /\ activeLocationId' = newLocation.id
     /\ nextLocId' = nextLocId + 1
     /\ SaveRegisteredLocations
     /\ lastCall' = ReturnedLoc("registerLocation", newLocation.id, TRUE, activeLocationId)
     /\ UNCHANGED <<clockVars, storeVars, hookVars, serviceVars, result>>

setActiveLocation(locationId) ==
  LET index == FindLocation(registeredLocations, locationId, 1)
  IN /\ IF index = None
        THEN /\ lastCall' = ReturnedLoc("setActiveLocation", locationId, FALSE, activeLocationId)
             /\ UNCHANGED <<registeredLocations, activeLocationId, storedLocations, storedActiveId>>
        ELSE /\ registeredLocations' = [DeactivateAll(registeredLocations) EXCEPT ![index].isActive = TRUE]
             /\ activeLocationId' = locationId
             /\ SaveRegisteredLocations
             /\ lastCall' = ReturnedLoc("setActiveLocation", locationId, TRUE, activeLocationId)
     /\ UNCHANGED <<clockVars, storeVars, hookVars, nextLocId, serviceVars, result>>

updateLocation(locationId, updates) ==
  LET index == FindLocation(registeredLocations, locationId, 1)
  IN /\ IF index = None
        THEN /\ lastCall' = ReturnedLoc("updateLocation", locationId, FALSE, activeLocationId)
             /\ UNCHANGED <<registeredLocations, activeLocationId, storedLocations, storedActiveId>>
        ELSE /\ registeredLocations' = [registeredLocations EXCEPT
                                          ![index] = ApplyUpdates(registeredLocations[index], updates)]
             /\ UNCHANGED activeLocationId
             /\ SaveRegisteredLocations
             /\ lastCall' = ReturnedLoc("updateLocation", locationId, TRUE, activeLocationId)
     /\ UNCHANGED <<clockVars, storeVars, hookVars, nextLocId, serviceVars, result>>

deleteLocation(locationId) ==
  LET index == FindLocation(registeredLocations, locationId, 1)
  IN /\ IF index = None
        THEN /\ lastCall' = ReturnedLoc("deleteLocation", locationId, FALSE, activeLocationId)
             /\ UNCHANGED <<registeredLocations, activeLocationId, storedLocations, storedActiveId>>
        ELSE /\ registeredLocations' = DeleteFrom(registeredLocations, index, activeLocationId)
             /\ activeLocationId' =
                  IF activeLocationId = locationId
                  THEN IF Len(registeredLocations') > 0 THEN registeredLocations'[1].id ELSE None
                  ELSE activeLocationId
             /\ SaveRegisteredLocations
             /\ lastCall' = ReturnedLoc("deleteLocation", locationId, TRUE, activeLocationId)
     /\ UNCHANGED <<clockVars, storeVars, hookVars, nextLocId, serviceVars, result>>

\* A page load: a new GeolocationService reads the registry back from localStorage.
loadRegisteredLocations ==
  /\ registeredLocations' = storedLocations
  /\ activeLocationId' = storedActiveId
  /\ lastCall' = Pending("loadRegisteredLocations", "")
  /\ UNCHANGED <<clockVars, storeVars, hookVars, storedLocations, storedActiveId, nextLocId, serviceVars, result>>

\* ---------------------------------------------------------- specifications
InitClock ==
  /\ now \in 0 .. MinutesPerDay - 1
  /\ localDay = 1
  /\ utcOffset \in UtcOffsets
  /\ elapsed = 0

InitStore ==
  /\ records = << >>
  /\ storedRecords = << >>
  /\ nextId = 1
  /\ task = [t \in Tasks |-> IdleTask]

InitHook ==
  /\ locationHistory = << >>
  /\ hookError = None
  /\ delivered = << >>

\* Both services as constructed: no watch, no timer, nothing applied yet.
InitServices ==
  /\ geolocationSupported = TRUE
  /\ watchId = None
  /\ watches = {}
  /\ nextWatchId = 1
  /\ isActive = FALSE
  /\ intervalId = None
  /\ timers = {}
  /\ nextTimerId = 1
  /\ triggeredPeriods = {}
  /\ notified = << >>
  /\ sinceReset = << >>
  /\ callbacks = << >>
  /\ received = [c \in Subscribers |-> << >>]
  /\ locationCallbacks = << >>
  /\ consumers = [c \in Consumers |-> "unmounted"]
  /\ seen = [c \in Consumers |-> 0]
  /\ result = NoResult

NoLocations ==
  /\ registeredLocations = << >>
  /\ activeLocationId = None
  /\ storedLocations = << >>
  /\ storedActiveId = None
  /\ nextLocId = 1

\* The registry after one registerLocation(0, 100) on an empty registry.
OneLocation ==
  /\ registeredLocations = << [id |-> 1, position |-> 0, radiusMeters |-> 100, isActive |-> TRUE] >>
  /\ activeLocationId = 1
  /\ storedLocations = registeredLocations
  /\ storedActiveId = 1
  /\ nextLocId = 2

\* The page is opened at any minute of the day, with nothing marked yet.
Init ==
  /\ InitClock
  /\ InitStore
  /\ InitHook
  /\ NoLocations \/ OneLocation
  /\ InitServices
  /\ lastCall = NoCall

Next ==
  \/ Tick
  \/ \E t \in Tasks, s \in Students : MarkAttendanceBegin(t, s)
  \/ \E t \in Tasks, o \in LocationOutcomes : MarkAttendanceResume(t, o)
  \/ \E s \in Students : MarkCheckOut(s)

Spec == Init /\ [][Next]_vars

\* The location registry on its own, from an empty registry.
InitRegistry ==
  /\ now = 0
  /\ localDay = 1
  /\ utcOffset = 0
  /\ elapsed = 0
  /\ InitStore
  /\ InitHook
  /\ NoLocations
  /\ InitServices
  /\ lastCall = NoCall

NextRegistry ==
  \/ \E p \in {0, 500}, r \in Radii : registerLocation(p, r)
  \/ \E l \in LocationIds : setActiveLocation(l)
  \/ \E l \in LocationIds, u \in LocationUpdates : updateLocation(l, u)
  \/ \E l \in LocationIds : deleteLocation(l)
  \/ loadRegisteredLocations

SpecRegistry == InitRegistry /\ [][NextRegistry]_vars

\* The check-in path together with the location-history hook, the page being
\* opened during the check-in window of the first period.
InitSpoofing ==
  /\ now \in timeToMinutes(<<8, 45>>) .. timeToMinutes(<<8, 55>>)
  /\ localDay = 1
  /\ utcOffset \in UtcOffsets
  /\ elapsed = 0
  /\ InitStore
  /\ InitHook
  /\ OneLocation
  /\ InitServices
  /\ lastCall = NoCall

NextSpoofing ==
  \/ Tick
  \/ \E t \in Tasks, s \in Students : MarkAttendanceBegin(t, s)
  \/ \E t \in Tasks, o \in LocationOutcomes : MarkAttendanceResume(t, o)
  \/ \E f \in WatchFixes : Len(delivered) < MaxDelivered /\ OnLocationUpdate(f)

SpecSpoofing == InitSpoofing /\ [][NextSpoofing]_vars

\* The geolocation functions applied to histories and fixes, one location of
\* radius 100 being registered at the origin.
InitGeo ==
  /\ now = 0
  /\ localDay = 1
  /\ utcOffset = 0
  /\ elapsed = 0
  /\ InitStore
  /\ locationHistory \in Histories
  /\ hookError = None
  /\ delivered = << >>
  /\ OneLocation
  /\ InitServices
  /\ lastCall = NoCall

NextGeo ==
  \/ DetectLocationSpoofing
  \/ \E f \in Fixes : ValidateLocationAccuracy(f)
  \/ \E f \in Fixes : IsWithinGeofence(f)
  \/ \E f \in Fixes : GetDistanceFromGeofence(f)

SpecGeo == InitGeo /\ [][NextGeo]_vars

\* The timetable functions applied at every minute of the day.
InitTimetable ==
  /\ now \in 0 .. MinutesPerDay - 1
  /\ localDay = 1
  /\ utcOffset = 0
  /\ elapsed = 0
  /\ InitStore
  /\ InitHook
  /\ NoLocations
  /\ InitServices
  /\ lastCall = NoCall

NextTimetable ==
  \/ GetCurrentPeriod
  \/ GetNextPeriod
  \/ \E p \in DOMAIN PERIOD_TIMETABLE : GetAttendanceWindow(p)

SpecTimetable == InitTimetable /\ [][NextTimetable]_vars

\* The hook on its own, receiving samples until the rolling history has turned over.
InitHistory ==
  /\ now = 0
  /\ localDay = 1
  /\ utcOffset = 0
  /\ elapsed = 0
  /\ InitStore
  /\ InitHook
  /\ OneLocation
  /\ InitServices
  /\ lastCall = NoCall

NextHistory ==
  \E f \in WatchFixes : Len(delivered) < MaxArrivals /\ OnLocationUpdate(f)

SpecHistory == InitHistory /\ [][NextHistory]_vars

\* The two services being started and stopped, the page being opened during
\* the last minutes of Period 1.
InitWatch ==
  /\ now \in timeToMinutes(<<9, 38>>) .. timeToMinutes(<<9, 44>>)
  /\ localDay = 1
  /\ utcOffset = 0
  /\ elapsed = 0
  /\ InitStore
  /\ InitHook
  /\ OneLocation
  /\ geolocationSupported \in BOOLEAN
  /\ watchId = None
  /\ watches = {}
  /\ nextWatchId = 1
  /\ isActive = FALSE
  /\ intervalId = None
  /\ timers = {}
  /\ nextTimerId = 1
  /\ triggeredPeriods = {}
  /\ notified = << >>
  /\ sinceReset = << >>
  /\ callbacks = << >>
  /\ received = [c \in Subscribers |-> << >>]
  /\ locationCallbacks = << >>
  /\ consumers = [c \in Consumers |-> "unmounted"]
  /\ seen = [c \in Consumers |-> 0]
  /\ result = NoResult
  /\ lastCall = NoCall

NextWatch ==
  \/ Tick
  \/ startWatching
  \/ stopWatching
  \/ start({})
  \/ stop
  \/ \E t \in 1 .. MaxHandles : IntervalFires(t, {})

SpecWatch == InitWatch /\ [][NextWatch]_vars

\* The trigger service with its subscribers, the page being opened during the
\* last minutes of Period 1.
InitTrigger ==
  /\ now \in timeToMinutes(<<9, 39>>) .. timeToMinutes(<<9, 40>>)
  /\ localDay = 1
  /\ utcOffset = 0
  /\ elapsed = 0
  /\ InitStore
  /\ InitHook
  /\ OneLocation
  /\ InitServices
  /\ lastCall = NoCall

NextTrigger ==
  \/ Tick
  \/ \E th \in SUBSET Subscribers : start(th)
  \/ stop
  \/ \E t \in 1 .. MaxHandles, th \in SUBSET Subscribers : IntervalFires(t, th)
  \/ \E c \in Subscribers : subscribe(c)
  \/ \E c \in Subscribers : unsubscribe(c)

SpecTrigger == InitTrigger /\ [][NextTrigger]_vars

\* The components that use the location hook, mounted and unmounted in any order.
InitConsumers ==
  /\ now = timeToMinutes(<<9, 0>>)
  /\ localDay = 1
  /\ utcOffset = 0
  /\ elapsed = 0
  /\ InitStore
  /\ InitHook
  /\ OneLocation
  /\ InitServices
  /\ lastCall = NoCall

NextConsumers ==
  \/ Tick
  \/ \E c \in Consumers : EffectStarts(c)
  \/ \E c \in Consumers : EffectCleanup(c)
  \/ \E w \in 1 .. MaxHandles : WatchFires(w)

SpecConsumers == InitConsumers /\ [][NextConsumers]_vars

\* The statistics and the export applied to the stores a student left over the
\* days up to today, no day after today being marked.
InitStats ==
  /\ now = timeToMinutes(<<17, 0>>)
  /\ localDay \in StatDates
  /\ utcOffset = 0
  /\ elapsed = 0
  /\ \E pattern \in [StatDates -> DayPatterns] :
       /\ \A d \in StatDates : d > localDay => pattern[d] = 0
       /\ records = StoreOf(pattern, 1, 1)
  /\ storedRecords = records
  /\ nextId = Len(records) + 1
  /\ task = [t \in Tasks |-> IdleTask]
  /\ InitHook
  /\ OneLocation
  /\ InitServices
  /\ lastCall = NoCall

NextStats ==
  \/ \E s \in Students, days \in StatDays : GetAttendanceStats(s, days)
  \/ \E s \in Students, startDate \in StatDates, endDate \in StatDates :
       startDate <= endDate /\ GetAttendanceStatsByDateRange(s, startDate, endDate)
  \/ \E s \in Students, startDate \in StatDates \cup {None}, endDate \in StatDates \cup {None} :
       ExportAttendanceCSV(s, startDate, endDate)

SpecStats == InitStats /\ [][NextStats]_vars

\* The trigger service started, stopped and reset at any minute of the day.
InitSpan ==
  /\ now \in 0 .. MinutesPerDay - 1
  /\ localDay = 1
  /\ utcOffset = 0
  /\ elapsed = 0
  /\ InitStore
  /\ InitHook
  /\ OneLocation
  /\ InitServices
  /\ lastCall = NoCall

NextSpan ==
  \/ Tick
  \/ start({})
  \/ stop
  \/ resetTriggeredPeriods
  \/ manualTrigger({})
  \/ \E t \in 1 .. MaxHandles : IntervalFires(t, {})

SpecSpan == InitSpan /\ [][NextSpan]_vars

\* The trigger service started once and left running over several days.
InitDays ==
  /\ now = 0
  /\ localDay = 1
  /\ utcOffset = 0
  /\ elapsed = 0
  /\ InitStore
  /\ InitHook
  /\ OneLocation
  /\ InitServices
  /\ lastCall = NoCall

NextDays ==
  \/ start({})
  \/ MinuteWithTimer

SpecDays == InitDays /\ [][NextDays]_vars

\* ------------------------------------------------------------------ properties
Today == getTodayDate(localDay, now, utcOffset)

Recs == 1 .. Len(records)

\* The timetable entries whose [start, end) holds minute t.
PeriodsAt(t) ==
  { i \in DOMAIN PERIOD_TIMETABLE :
      /\ timeToMinutes(PERIOD_TIMETABLE[i].start_time) <= t
      /\ t < timeToMinutes(PERIOD_TIMETABLE[i].end_time) }

PeriodAt(t) == CHOOSE i \in PeriodsAt(t) : TRUE

StartOf(i) == timeToMinutes(PERIOD_TIMETABLE[i].start_time)
EndOf(i) == timeToMinutes(PERIOD_TIMETABLE[i].end_time)

\* Minute t lies in the check-in window [start - 5, start + 10] of entry i.
InCheckInWindow(i, t) == StartOf(i) - 5 <= t /\ t <= StartOf(i) + 10

\* Some record of the key (studentId, date, periodNumber) holds a check-in.
CheckedIn(recs, studentId, date, periodNumber) ==
  \E i \in 1 .. Len(recs) :
    /\ recs[i].studentId = studentId
    /\ recs[i].date = date
    /\ recs[i].periodNumber = periodNumber
    /\ recs[i].checkInTime # None

StoreUnchanged == records' = records /\ storedRecords' = storedRecords

\* A step in which markAttendance was invoked (it returned at once or went on
\* to await the location fix).
CheckInInvoked == lastCall'.op = "markAttendance" /\ ~lastCall'.resumed

\* A step in which an awaiting markAttendance received the provider's answer.
CheckInResumed == lastCall'.op = "markAttendance" /\ lastCall'.resumed

\* C1: at most one attendance record exists per (studentId, date, periodNumber),
\* also when two markAttendance invocations for the same key overlap.
C1_OneRecordPerKey ==
  \A i, j \in Recs :
    ( /\ records[i].studentId = records[j].studentId
      /\ records[i].date = records[j].date
      /\ records[i].periodNumber = records[j].periodNumber ) => i = j

\* C2: a markAttendance invoked when the key (student, today, current period)
\* already holds a check-in returns failure at once and leaves the record store,
\* in memory and persisted, as it was.
C2_SecondCheckInRejected ==
  [][ ( /\ CheckInInvoked
        /\ PeriodsAt(now) # {}
        /\ CheckedIn(records, lastCall'.studentId, Today, PERIOD_TIMETABLE[PeriodAt(now)].period) )
      => ( /\ lastCall'.returned
           /\ ~lastCall'.success
           /\ StoreUnchanged ) ]_vars

\* C2 witness: a second check-in was rejected because the key was already marked.
C2_Witness ==
  /\ lastCall.op = "markAttendance"
  /\ lastCall.returned /\ ~lastCall.success
  /\ lastCall.message = "Attendance already marked"
  /\ CheckedIn(records, lastCall.studentId, Today, PERIOD_TIMETABLE[PeriodAt(now)].period)

\* C3: with an active location registered and no prior record, markAttendance
\* is let through to the location check at every minute of [start - 5, start + 10]
\* of an active period, and is rejected at every minute outside all such windows.
C3_CheckInWindow ==
  [][ ( CheckInInvoked /\ activeLocationId # None )
      => LET s == lastCall'.studentId
             open == { i \in DOMAIN PERIOD_TIMETABLE :
                         /\ PERIOD_TIMETABLE[i].is_active
                         /\ InCheckInWindow(i, now) }
         IN /\ ( \E i \in open : ~CheckedIn(records, s, Today, PERIOD_TIMETABLE[i].period) )
                 => ~lastCall'.returned
            /\ open = {} => ( lastCall'.returned /\ ~lastCall'.success ) ]_vars

\* The active geofence of the registry.
ActiveGeofence == getActiveGeofenceArea(registeredLocations, activeLocationId)

\* The messages with which a closed check-in window is reported.
WindowMessages ==
  { "Attendance window closed", "Attendance window is closed",
    "Attendance window opens later", "Late check-in window" }

\* The message the ordered preconditions (a)-(d) ask for at the invocation of
\* markAttendance(studentId) in the current state, "" when all four hold.
FirstFailedPrecondition(studentId) ==
  IF PeriodsAt(now) = {} THEN {"No active period found"}
  ELSE IF ~PERIOD_TIMETABLE[PeriodAt(now)].is_active
       THEN {"Attendance not required during breaks"}
  ELSE IF ~InCheckInWindow(PeriodAt(now), now) THEN WindowMessages
  ELSE IF CheckedIn(records, studentId, Today, PERIOD_TIMETABLE[PeriodAt(now)].period)
       THEN {"Attendance already marked"}
  ELSE {}

\* C4: markAttendance reports the first failing precondition in the order
\* (a) current period, (b) active, (c) window open, (d) no check-in for the key,
\* (e) accuracy, (f) inside the geofence; every failure returns success = false
\* with a reason and leaves the record store, in memory and persisted, unchanged.
C4_FirstFailureWins ==
  [][ /\ CheckInInvoked =>
           LET expected == FirstFailedPrecondition(lastCall'.studentId)
           IN /\ expected # {} => ( /\ lastCall'.returned
                                    /\ ~lastCall'.success
                                    /\ lastCall'.message \in expected )
              /\ expected = {} => ( lastCall'.returned =>
                                      /\ ~lastCall'.success
                                      /\ lastCall'.message = "No active location registered for attendance" )
              /\ StoreUnchanged
      /\ CheckInResumed =>
           LET o == lastCall'.outcome
               accurate == o.kind = "fix" /\ validateLocationAccuracy(o)
               inside == getDistance(o.position, ActiveGeofence.center) <= ActiveGeofence.radius
           IN /\ lastCall'.returned
              /\ o.kind = "error" => lastCall'.message = "Location verification failed"
              /\ (o.kind = "fix" /\ ~accurate)
                   => lastCall'.message = "Location accuracy too poor for attendance verification"
              /\ (accurate /\ ~inside)
                   => lastCall'.message = "You are away from the attendance location"
              /\ lastCall'.success <=> (accurate /\ inside)
              /\ ~lastCall'.success => (lastCall'.message # "" /\ StoreUnchanged)
    ]_vars

\* C4 witness: a sample that fails (e) and (f) alike was rejected for (e).
C4_Witness ==
  /\ lastCall.op = "markAttendance" /\ lastCall.resumed /\ ~lastCall.success
  /\ lastCall.outcome.kind = "fix"
  /\ lastCall.outcome.accuracy = 101
  /\ lastCall.outcome.position = 101
  /\ lastCall.message = "Location accuracy too poor for attendance verification"

\* The timetable entry of period number n.
EntryOf(n) == CHOOSE i \in DOMAIN PERIOD_TIMETABLE : PERIOD_TIMETABLE[i].period = n

\* C5: a record is 'late' exactly when its check-in minute is greater than the
\* start of its period plus 5, and 'present' otherwise (08:50 present, 08:51
\* late for the 08:45 period).
C5_LateAfterGrace ==
  \A i \in Recs :
    /\ records[i].status \in {"present", "late"}
    /\ records[i].status = "late"
         <=> records[i].checkInTime > StartOf(EntryOf(records[i].periodNumber)) + 5

\* C5 witness: a check-in at 08:51 for the 08:45 period, recorded as late.
C5_Witness ==
  \E i \in Recs :
    /\ records[i].periodNumber = 1
    /\ records[i].checkInTime = 8 * 60 + 51
    /\ records[i].status = "late"

\* C6: markCheckOut succeeds only on a record of the current key that holds a
\* check-in and no check-out, while check-out is allowed; it then changes only
\* checkOutTime and updatedAt of that record and adds none; a check-out of a key
\* already checked out is rejected and changes nothing.
C6_CheckOutInPlace ==
  [][ lastCall'.op = "markCheckOut" =>
        LET s == lastCall'.studentId
        IN /\ lastCall'.success =>
                /\ PeriodsAt(now) # {}
                /\ PERIOD_TIMETABLE[PeriodAt(now)].is_active
                /\ StartOf(PeriodAt(now)) <= now /\ now <= EndOf(PeriodAt(now))
                /\ Len(records') = Len(records)
                /\ \E i \in Recs :
                     /\ records[i].studentId = s
                     /\ records[i].date = Today
                     /\ records[i].periodNumber = PERIOD_TIMETABLE[PeriodAt(now)].period
                     /\ records[i].checkInTime # None
                     /\ records[i].checkOutTime = None
                     /\ records'[i].checkOutTime # None
                     /\ records'[i] = [records[i] EXCEPT !.checkOutTime = records'[i].checkOutTime,
                                                         !.updatedAt = records'[i].updatedAt]
                     /\ \A j \in Recs \ {i} : records'[j] = records[j]
           /\ ( /\ PeriodsAt(now) # {}
                /\ \E i \in Recs :
                     /\ records[i].studentId = s
                     /\ records[i].date = Today
                     /\ records[i].periodNumber = PERIOD_TIMETABLE[PeriodAt(now)].period
                     /\ records[i].checkOutTime # None )
                => ( ~lastCall'.success /\ StoreUnchanged )
    ]_vars

\* C6 witness: a second check-out of a key already checked out was rejected.
C6_Witness ==
  /\ lastCall.op = "markCheckOut" /\ ~lastCall.success
  /\ lastCall.message = "Already checked out for this period"
  /\ \E i \in Recs : records[i].checkOutTime # None

\* C7: a record that holds a check-in is never removed, its key, checkInTime and
\* present/late status never change, and the record getTodayAttendance returns
\* for its key stays the same one.
C7_ForwardOnly ==
  [][ \A i \in Recs :
        records[i].checkInTime # None =>
          /\ \E j \in 1 .. Len(records') :
               /\ records'[j].id = records[i].id
               /\ records'[j].studentId = records[i].studentId
               /\ records'[j].date = records[i].date
               /\ records'[j].periodNumber = records[i].periodNumber
               /\ records'[j].checkInTime = records[i].checkInTime
               /\ records'[j].status = records[i].status
          /\ LET before == getTodayAttendance(records, records[i].studentId,
                                              records[i].periodNumber, records[i].date)
                 after == getTodayAttendance(records', records[i].studentId,
                                             records[i].periodNumber, records[i].date)
             IN /\ after.id = before.id
                /\ after.checkInTime = before.checkInTime
                /\ after.status = before.status
    ]_vars

\* C7 witness: a key that was checked in and checked out was asked to check in
\* again, and the call was rejected.
C7_Witness ==
  /\ lastCall.op = "markAttendance" /\ ~lastCall.success
  /\ lastCall.message = "Attendance already marked"
  /\ \E i \in Recs : records[i].checkOutTime # None

Locs == 1 .. Len(registeredLocations)

\* C8: at most one registered location has isActive = true; when any location
\* is registered exactly one has, and it is the one getActiveLocation returns.
C8_ExactlyOneActive ==
  /\ Cardinality({ i \in Locs : registeredLocations[i].isActive }) <= 1
  /\ Len(registeredLocations) > 0 =>
       /\ Cardinality({ i \in Locs : registeredLocations[i].isActive }) = 1
       /\ getActiveLocation(registeredLocations, activeLocationId).id # None
       /\ getActiveLocation(registeredLocations, activeLocationId).isActive

\* C9: deleting the active location makes one of the remaining locations the
\* active one (isActive set) when any remain and leaves no active location when
\* none remain; deleting another location leaves the active location as it was.
C9_DeletePromotes ==
  [][ ( lastCall'.op = "deleteLocation" /\ lastCall'.success ) =>
        LET id == lastCall'.locationId
            remaining == { registeredLocations[i].id : i \in Locs } \ {id}
        IN /\ { registeredLocations'[i].id : i \in 1 .. Len(registeredLocations') } = remaining
           /\ (activeLocationId = id /\ remaining # {}) =>
                /\ activeLocationId' \in remaining
                /\ getActiveLocation(registeredLocations', activeLocationId').isActive
           /\ (activeLocationId = id /\ remaining = {}) =>
                /\ activeLocationId' = None
                /\ getActiveLocation(registeredLocations', activeLocationId').id = None
           /\ activeLocationId # id =>
                /\ activeLocationId' = activeLocationId
                /\ getActiveLocation(registeredLocations', activeLocationId')
                     = getActiveLocation(registeredLocations, activeLocationId)
    ]_vars

\* C9 witness: the active location was deleted and another one remains.
C9_Witness ==
  /\ lastCall.op = "deleteLocation" /\ lastCall.success
  /\ lastCall.activeBefore = lastCall.locationId
  /\ Len(registeredLocations) > 0

\* C10: a markAttendance that returns while the rolling location history is
\* flagged as spoofed returns failure and writes no record.
C10_SpoofedCheckInFails ==
  [][ ( /\ lastCall'.op = "markAttendance"
        /\ lastCall'.returned
        /\ detectLocationSpoofing(locationHistory) )
      => ( ~lastCall'.success /\ records' = records ) ]_vars

\* ------------------------------------------------- properties of functions
\* Metres between two samples of a history.
Metres(a, b) == IF a.position >= b.position THEN a.position - b.position
                ELSE b.position - a.position

\* Seconds from sample a to sample b.
Seconds(a, b) == b.timestamp - a.timestamp

\* The consecutive pairs of a history, each named by its later sample.
Pairs(history) == 2 .. Len(history)

\* C11: detectLocationSpoofing flags every history that holds a consecutive pair
\* of samples with equal timestamps, whatever the distance between the two,
\* zero included.
C11_ZeroElapsedFlagged ==
  ( /\ result.fn = "detectLocationSpoofing"
    /\ \E i \in Pairs(result.input) : Seconds(result.input[i - 1], result.input[i]) = 0 )
  => result.value = TRUE

C13_AccuracyUpToHundred ==
  result.fn = "validateLocationAccuracy" =>
    ( result.value = FALSE
        <=> ( result.input.accuracy = None \/ result.input.accuracy > 100 ) )

\* The geofence the functions were applied with.
GeofenceApplied == getActiveGeofenceArea(registeredLocations, activeLocationId)

\* C14: isWithinGeofence is true exactly when the distance getDistanceFromGeofence
\* returns is at most the radius: at radius metres inside, at radius + 1 outside.
C14_GeofenceInclusive ==
  result.fn = "isWithinGeofence" =>
    LET distance == getDistanceFromGeofence(result.input, GeofenceApplied)
    IN /\ result.value = (distance <= GeofenceApplied.radius)
       /\ distance = GeofenceApplied.radius => result.value = TRUE
       /\ distance = GeofenceApplied.radius + 1 => result.value = FALSE

\* C14 witness: a sample at exactly radius metres was found inside.
C14_Witness ==
  /\ result.fn = "isWithinGeofence"
  /\ getDistanceFromGeofence(result.input, GeofenceApplied) = GeofenceApplied.radius
  /\ result.value = TRUE

\* C15: the timetable is ordered by start and free of overlap, so at every
\* minute at most one entry has start <= t < end, and getCurrentPeriod returns
\* that entry when there is one and none otherwise.
C15_AtMostOneCurrentPeriod ==
  /\ \A i, j \in DOMAIN PERIOD_TIMETABLE :
       i < j => (StartOf(i) < StartOf(j) /\ EndOf(i) <= StartOf(j))
  /\ Cardinality(PeriodsAt(now)) <= 1
  /\ result.fn = "getCurrentPeriod" =>
       /\ PeriodsAt(result.input) = {} => result.value = None
       /\ PeriodsAt(result.input) # {} => PeriodsAt(result.input) = {result.value}

\* C15 witness: at 09:45, where Period 1 ends and Period 2 starts, Period 2 was
\* returned.
C15_Witness ==
  /\ result.fn = "getCurrentPeriod"
  /\ result.input = timeToMinutes(<<9, 45>>)
  /\ result.value = 2

\* C16: canCheckIn of getAttendanceWindow is true exactly when the entry is
\* active and start - 5 <= t <= start + 10; for a break it is false always.
C16_CheckInWindowBounds ==
  result.fn = "getAttendanceWindow" =>
    LET p == result.input.period
        t == result.input.currentTime
    IN /\ result.value.canCheckIn =
            ( /\ PERIOD_TIMETABLE[p].is_active
              /\ StartOf(p) - 5 <= t
              /\ t <= StartOf(p) + 10 )
       /\ ~PERIOD_TIMETABLE[p].is_active => result.value.canCheckIn = FALSE

\* C16 witness: five minutes before the start of an active period check-in was
\* allowed.
C16_Witness ==
  /\ result.fn = "getAttendanceWindow"
  /\ PERIOD_TIMETABLE[result.input.period].is_active
  /\ result.input.currentTime = StartOf(result.input.period) - 5
  /\ result.value.canCheckIn

\* C17: canCheckOut of getAttendanceWindow is true exactly when the entry is
\* active and start <= t <= end; for a break it is false always.
C17_CheckOutWindowBounds ==
  result.fn = "getAttendanceWindow" =>
    LET p == result.input.period
        t == result.input.currentTime
    IN /\ result.value.canCheckOut =
            ( /\ PERIOD_TIMETABLE[p].is_active
              /\ StartOf(p) <= t
              /\ t <= EndOf(p) )
       /\ ~PERIOD_TIMETABLE[p].is_active => result.value.canCheckOut = FALSE

\* C17 witness: at the end minute of an active period check-out was allowed.
C17_Witness ==
  /\ result.fn = "getAttendanceWindow"
  /\ PERIOD_TIMETABLE[result.input.period].is_active
  /\ result.input.currentTime = EndOf(result.input.period)
  /\ result.value.canCheckOut

\* The timetable entries that start after minute t.
PeriodsAfter(t) == { i \in DOMAIN PERIOD_TIMETABLE : StartOf(i) > t }

\* C18: getNextPeriod returns the first entry of the timetable whose start is
\* after now, none at or after the start of the last entry, and never the
\* entry getCurrentPeriod returns for the same minute.
C18_NextPeriodIsFirstLater ==
  result.fn = "getNextPeriod" =>
    /\ PeriodsAfter(result.input) = {} => result.value = None
    /\ PeriodsAfter(result.input) # {} =>
         /\ result.value \in PeriodsAfter(result.input)
         /\ \A i \in PeriodsAfter(result.input) : result.value <= i
    /\ result.input >= StartOf(Len(PERIOD_TIMETABLE)) => result.value = None
    /\ result.value # None => result.value # getCurrentPeriod(result.input)

\* C18 witness: at 08:45, the start of Period 1, Period 2 was returned.
C18_Witness ==
  /\ result.fn = "getNextPeriod"
  /\ result.input = timeToMinutes(<<8, 45>>)
  /\ getCurrentPeriod(result.input) = 1
  /\ result.value = 2

\* The last n entries of a sequence.
LastOf(seq, n) == SubSeq(seq, Len(seq) - n + 1, Len(seq))

\* C19: the rolling location history never holds more than 10 samples; it is
\* the most recent min(n, 10) of the n samples delivered, in arrival order.
C19_HistoryIsLastTen ==
  /\ Len(locationHistory) <= 10
  /\ locationHistory =
       LastOf(delivered, IF Len(delivered) < 10 THEN Len(delivered) ELSE 10)

\* C19 witness: more than 10 samples were delivered.
C19_Witness ==
  /\ Len(delivered) > 10
  /\ Len(locationHistory) = 10

\* C20: stopWatching and stop called when already stopped change nothing;
\* startWatching and start called when already running create no second watch
\* or timer; at most one position watch and one period-check interval exist.
C20_StartStopIdempotent ==
  [][ /\ (lastCall'.op = "stopWatching" /\ watchId = None) => UNCHANGED watchVars
      /\ (lastCall'.op = "stop" /\ ~isActive) => UNCHANGED triggerVars
      /\ (lastCall'.op = "startWatching" /\ watchId # None) => UNCHANGED watchVars
      /\ (lastCall'.op = "start" /\ isActive) => UNCHANGED triggerVars
      /\ Cardinality(watches') <= 1
      /\ Cardinality(timers') <= 1
      /\ watches' = (IF watchId' = None THEN {} ELSE {watchId'})
      /\ timers' = (IF intervalId' = None THEN {} ELSE {intervalId'}) ]_vars

\* C20 witness: startWatching was called while a watch was held, the trigger
\* service being active.
C20_Witness ==
  /\ lastCall.op = "startWatching"
  /\ lastCall.activeBefore = 1
  /\ isActive
  /\ nextTimerId > 2

\* C21: markAttendance and markCheckOut never reject: whatever the location
\* provider answers (a fix, permission denied, position unavailable, timeout,
\* geolocation unsupported) and also with no registered location, the call
\* resolves with a success flag and a message.
C21_NeverRejects ==
  [][ /\ lastCall'.op \in {"markAttendance", "markCheckOut"} => ~lastCall'.rejected
      /\ (CheckInResumed \/ lastCall'.op = "markCheckOut") =>
           (lastCall'.returned /\ lastCall'.message # "")
      /\ CheckInInvoked =>
           \/ lastCall'.returned /\ ~lastCall'.success /\ lastCall'.message # ""
           \/ \E t \in Tasks : task[t].pc = "idle" /\ task'[t].pc = "awaiting" ]_vars

\* C21 witness: markAttendance resolved with a failure after the provider had
\* rejected because geolocation is unsupported.
C21_Witness ==
  /\ lastCall.op = "markAttendance"
  /\ lastCall.resumed
  /\ lastCall.outcome.kind = "error"
  /\ lastCall.outcome.cause = "unsupported"
  /\ lastCall.returned
  /\ ~lastCall.success

\* C27: for every record markAttendance has written, the minute taken as
\* checkInTime (and for the present / late status) lies in the check-in window
\* [start - 5, start + 10] of the recorded period, also when the clock advances
\* while the location fix is awaited.
C27_CheckInTimeInWindow ==
  \A i \in Recs :
    InCheckInWindow(EntryOf(records[i].periodNumber), records[i].checkInTime)

\* The local calendar day on which a record was created.
LocalDayOf(record) == (record.createdAt + utcOffset) \div MinutesPerDay

\* C28: a markCheckOut issued in the period and on the local day of a record
\* that markAttendance created finds that record, whatever the offset of local
\* time from UTC: the date of the key at check-out is the date stored at check-in.
C28_CheckOutFindsCheckIn ==
  [][ \A i \in Recs :
        ( /\ lastCall'.op = "markCheckOut"
          /\ records[i].studentId = lastCall'.studentId
          /\ getCurrentPeriod(now) # None
          /\ records[i].periodNumber = PERIOD_TIMETABLE[getCurrentPeriod(now)].period
          /\ LocalDayOf(records[i]) = localDay )
        => ( /\ records[i].date = getTodayDate(localDay, now, utcOffset)
             /\ lastCall'.message # "No check-in record found for this period" ) ]_vars

\* The events a step added to a log of events.
Added(before, after) == SubSeq(after, Len(before) + 1, Len(after))

\* C22: a subscriber callback that throws while a trigger event is delivered
\* neither stops the period-check timer nor keeps the other subscribers from
\* receiving that event: every subscribed callback is called once per
\* subscription with each event the step generated.
C22_ThrowingSubscriberIsolated ==
  [][ (lastCall'.op \in {"start", "checkPeriodStatus"} /\ lastCall'.generated > 0) =>
        /\ \A c \in Subscribers :
             /\ Len(received'[c]) =
                  Len(received[c]) + lastCall'.generated * Subscriptions(callbacks, c)
             /\ SubSeq(received'[c], 1, Len(received[c])) = received[c]
             /\ \A i \in Len(received[c]) + 1 .. Len(received'[c]) :
                  \E k \in DOMAIN Added(notified, notified') :
                    received'[c][i] = Added(notified, notified')[k]
        /\ isActive'
        /\ intervalId' # None
        /\ intervalId' \in timers'
        /\ lastCall'.op = "checkPeriodStatus" => timers' = timers /\ intervalId' = intervalId ]_vars

\* C22 witness: the interval's check generated an event, the first subscriber's
\* callback threw, and the second subscriber received the event.
C22_Witness ==
  /\ lastCall.op = "checkPeriodStatus"
  /\ lastCall.generated = 1
  /\ lastCall.thrown = {"a"}
  /\ callbacks = <<"a", "b">>
  /\ received["b"] # << >>
  /\ received["b"][Len(received["b"])] = notified[Len(notified)]
  /\ intervalId \in timers

\* C25: while the trigger service stays started and its timer keeps firing,
\* every active period of every day produces a 'period_ending' event in its last
\* five minutes, on the second and later days as on the first.
C25_EveryDayEveryPeriod ==
  [][ \A p \in DOMAIN PERIOD_TIMETABLE :
        ( /\ PERIOD_TIMETABLE[p].is_active
          /\ isActive /\ isActive'
          /\ timers # {}
          /\ now # now'
          /\ now' = timeToMinutes(PERIOD_TIMETABLE[p].end_time) - 5 ) =>
        \E k \in DOMAIN Added(notified, notified') :
          /\ Added(notified, notified')[k].period = p
          /\ Added(notified, notified')[k].reason = "period_ending" ]_vars

\* C26: between one start() and the next stop() or resetTriggeredPeriods(), the
\* service generates at most one automatic 'period_ending' event per timetable
\* period, whatever the number of timer ticks, and none during a break or
\* outside every period.
C26_OnePeriodEndingPerSpan ==
  [][ \A k \in DOMAIN Added(sinceReset, sinceReset') :
        LET event == Added(sinceReset, sinceReset')[k]
        IN event.reason = "period_ending" =>
             /\ getCurrentPeriod(now') = event.period
             /\ event.period # None
             /\ PERIOD_TIMETABLE[event.period].is_active
             /\ event.minutesRemaining > 0
             /\ event.minutesRemaining <= 5
             /\ \A i \in DOMAIN sinceReset' :
                  ( /\ sinceReset'[i].reason = "period_ending"
                    /\ sinceReset'[i].period = event.period ) => i = Len(sinceReset) + k ]_vars

\* C26 witness: the timer fired again in the last five minutes of a period whose
\* 'period_ending' event had been generated, and generated nothing.
C26_Witness ==
  /\ lastCall.op = "checkPeriodStatus"
  /\ lastCall.generated = 0
  /\ isActive
  /\ Len(sinceReset) = 1
  /\ sinceReset[1].reason = "period_ending"
  /\ getCurrentPeriod(now) = sinceReset[1].period
  /\ timeToMinutes(PERIOD_TIMETABLE[sinceReset[1].period].end_time) - now <= 5

\* C30: while a consumer that started the watch and subscribed has not run its
\* cleanup, the shared position watch stays active, also when another consumer
\* runs its cleanup.
C30_WatchOutlivesOtherCleanup ==
  \A c \in Consumers :
    consumers[c] = "watching" => (watchId # None /\ watchId \in watches)

\* ----------------------------------------------- properties of the statistics
\* The records of the store an application of the statistics or the export
\* looked at: those of the student, within the dates when both are given.
Selected ==
  SelectSeq(records, LAMBDA record :
    /\ record.studentId = result.input.studentId
    /\ (result.input.startDate # None /\ result.input.endDate # None) =>
         (record.date >= result.input.startDate /\ record.date <= result.input.endDate))

StatsApplied == result.fn \in {"getAttendanceStats", "getAttendanceStatsByDateRange"}

\* The dates among the selected records with a present or late record.
AttendedDates ==
  { Selected[i].date : i \in { j \in DOMAIN Selected : Selected[j].status \in {"present", "late"} } }

\* The number of consecutive attended days counting back from the latest one.
ConsecutiveDays(dates) ==
  IF dates = {} THEN 0
  ELSE LET latest == CHOOSE d \in dates : \A e \in dates : e <= d
       IN Cardinality({ k \in 0 .. MaxStatDate : \A j \in 0 .. k : (latest - j) \in dates })

\* C23: currentStreak is the number of consecutive days, counting back from the
\* most recent date with a record, on which the status is present or late.
C23_StreakCountsDays ==
  StatsApplied => result.value.currentStreak = ConsecutiveDays(AttendedDates)

RECURSIVE ParseNumber(_)
\* The natural number a sequence of digits spells, or None.
ParseNumber(text) ==
  IF text = << >> THEN None
  ELSE LET last == text[Len(text)]
           digit == IF \E d \in 0 .. 9 : DigitChar[d + 1] = last
                    THEN CHOOSE d \in 0 .. 9 : DigitChar[d + 1] = last
                    ELSE None
           front == SubSeq(text, 1, Len(text) - 1)
       IN IF digit = None THEN None
          ELSE IF front = << >> THEN digit
          ELSE IF ParseNumber(front) = None THEN None
          ELSE ParseNumber(front) * 10 + digit

\* The day number a date string of the epoch month spells, or None.
ParseDate(text) ==
  IF Len(text) = 10 /\ SubSeq(text, 1, 8) = Spell("1970-01-")
     /\ ParseNumber(SubSeq(text, 9, 10)) # None
  THEN ParseNumber(SubSeq(text, 9, 10)) - 1
  ELSE None

\* C24: the export of N records is the header line followed by exactly N data
\* lines; every line has the eleven comma-separated fields in the fixed order,
\* and splitting a data line on commas gives back the record's date, period
\* number and status.
C24_CsvRoundTrip ==
  result.fn = "exportAttendanceCSV" =>
    LET lines == Split(result.value, "\n")
    IN /\ Len(lines) = Len(Selected) + 1
       /\ Split(lines[1], ",") = CsvHeaders
       /\ \A k \in DOMAIN Selected :
            LET fields == Split(lines[k + 1], ",")
            IN /\ Len(fields) = 11
               /\ ParseDate(fields[1]) = Selected[k].date
               /\ ParseNumber(fields[2]) = Selected[k].periodNumber
               /\ \A status \in {"present", "late", "absent"} :
                    (fields[6] = Spell(status)) <=> (status = Selected[k].status)

\* C24 witness: a store of two records, the second of them late, was exported whole.
C24_Witness ==
  /\ result.fn = "exportAttendanceCSV"
  /\ result.input.startDate = None
  /\ Len(records) = 2
  /\ \E i \in DOMAIN records : records[i].status = "late"
  /\ Len(Split(result.value, "\n")) = 3

\* C29: both statistics functions return absentCount >= 0 and an attendanceRate
\* between 0 and 100, for every store and every day count or date range.
C29_StatsWithinRange ==
  StatsApplied =>
    /\ result.value.absentCount >= 0
    /\ result.value.attendanceRate[1] >= 0
    /\ result.value.attendanceRate[1] <= 100 * result.value.attendanceRate[2]
====
